---- MODULE Spec2Model ----
(***************************************************************************)
(* Resume analysis pipeline of the applicant-tracking backend              *)
(* (src/backend/applicants/ai_service.py): the response normalizers        *)
(* _parse_gemini_response / _parse_job_match_response and the four         *)
(* analysis operations that call the external generative model.            *)
(*                                                                         *)
(* A Python str is modelled as a sequence of one-character strings.  The   *)
(* backtick cannot be written inside a TLA+ string literal, so the         *)
(* character is named BT.                                                  *)
(***************************************************************************)
EXTENDS Integers, Sequences, FiniteSets, TLC

\* ------------------------------------------------------------------------
\* Characters and str helpers
\* ------------------------------------------------------------------------

BT == "<backtick>"
QUOTE == "\""
NL == "\n"
SP == " "
TAB == "\t"

\* str.strip() with no argument removes runs of whitespace at both ends.
Whitespace == {SP, NL, TAB}

RECURSIVE LStrip(_)
LStrip(s) ==
    IF Len(s) > 0 /\ s[1] \in Whitespace THEN LStrip(Tail(s)) ELSE s

RECURSIVE RStrip(_)
RStrip(s) ==
    IF Len(s) > 0 /\ s[Len(s)] \in Whitespace
    THEN RStrip(SubSeq(s, 1, Len(s) - 1))
    ELSE s

Strip(s) == RStrip(LStrip(s))

StartsWith(s, p) == Len(p) <= Len(s) /\ SubSeq(s, 1, Len(p)) = p

EndsWith(s, p) ==
    Len(p) <= Len(s) /\ SubSeq(s, Len(s) - Len(p) + 1, Len(s)) = p

\* s[n:] and s[:-n] for n > 0
SliceFrom(s, n) == SubSeq(s, n + 1, Len(s))
SliceDropLast(s, n) == SubSeq(s, 1, Len(s) - n)

FENCE_JSON == <<BT, BT, BT, "j", "s", "o", "n">>
FENCE == <<BT, BT, BT>>

\* ------------------------------------------------------------------------
\* Fence stripping (lines 84-91 and 242-249)
\* ------------------------------------------------------------------------

StripOpeningFenceThreeOnly(t) ==
    IF StartsWith(t, FENCE) THEN SliceFrom(t, 3) ELSE t

StripOpeningFence(t) ==
    IF StartsWith(t, FENCE_JSON) THEN SliceFrom(t, 7)
    ELSE IF StartsWith(t, FENCE) THEN SliceFrom(t, 3)
    ELSE t

StripClosingFence(t) ==
    IF EndsWith(t, FENCE) THEN SliceDropLast(t, 3) ELSE t

CleanText(text) == Strip(StripClosingFence(StripOpeningFence(Strip(text))))

\* ------------------------------------------------------------------------
\* JSON values as Python objects: tagged so that values of different
\* Python types can be compared.
\* ------------------------------------------------------------------------

None == [t |-> "null"]
Num(n) == [t |-> "num", v |-> n]
Bool(b) == [t |-> "bool", v |-> b]
Str(cs) == [t |-> "str", v |-> cs]
\* the floats the decoder makes of NaN, Infinity and -Infinity
Float(name) == [t |-> "float", v |-> name]
List(xs) == [t |-> "list", v |-> xs]
\* a dict is kept as its key/value pairs in insertion order
Dict(pairs) == [t |-> "dict", v |-> pairs]
KV(k, val) == [k |-> k, v |-> val]

DigitChars == <<"0", "1", "2", "3", "4", "5", "6", "7", "8", "9">>
IsDigit(c) == \E d \in 1..10 : DigitChars[d] = c
DigitValue(c) == (CHOOSE d \in 1..10 : DigitChars[d] = c) - 1

\* ------------------------------------------------------------------------
\* json.loads (line 94 / 252): the standard decoder on the subset of JSON
\* the modelled replies use: objects, arrays, strings without escapes,
\* integers, true, false, null, and the constants NaN, Infinity and
\* -Infinity that this decoder accepts.  A result is
\*   [ok |-> TRUE, val, end]   value and index of the next unread character
\*   [ok |-> FALSE, err, pos]  JSONDecodeError message and 0-based position
\* ------------------------------------------------------------------------

JsonWs == {SP, NL, TAB}

Ok(val, end) == [ok |-> TRUE, val |-> val, end |-> end]
Err(msg, i) == [ok |-> FALSE, err |-> msg, pos |-> i - 1]

CharAt(s, i) == IF i >= 1 /\ i <= Len(s) THEN s[i] ELSE ""

MatchAt(s, i, lit) ==
    i + Len(lit) - 1 <= Len(s) /\ SubSeq(s, i, i + Len(lit) - 1) = lit

RECURSIVE SkipWs(_, _)
SkipWs(s, i) ==
    IF i <= Len(s) /\ s[i] \in JsonWs THEN SkipWs(s, i + 1) ELSE i

\* scanstring: i is the index after the opening quote; the string ends at
\* the next quote.  A control character inside the literal is an error.
RECURSIVE ScanString(_, _, _)
ScanString(s, begin, i) ==
    IF i > Len(s) THEN Err("Unterminated string starting at", begin - 1)
    ELSE IF s[i] = QUOTE THEN Ok(SubSeq(s, begin, i - 1), i + 1)
    ELSE IF s[i] \in {NL, TAB} THEN Err("Invalid control character at", i)
    ELSE ScanString(s, begin, i + 1)

\* NUMBER_RE: -?(0|[1-9][0-9]*) ; fractions and exponents do not occur in
\* the modelled replies.
RECURSIVE DigitsEnd(_, _)
DigitsEnd(s, i) ==
    IF i <= Len(s) /\ IsDigit(s[i]) THEN DigitsEnd(s, i + 1) ELSE i

RECURSIVE DigitsValue(_, _, _, _)
DigitsValue(s, i, end, acc) ==
    IF i >= end THEN acc
    ELSE DigitsValue(s, i + 1, end, acc * 10 + DigitValue(s[i]))

ScanNumber(s, i) ==
    LET neg == CharAt(s, i) = "-"
        d == IF neg THEN i + 1 ELSE i
        e == IF CharAt(s, d) = "0" THEN d + 1 ELSE DigitsEnd(s, d)
    IN  IF e = d THEN Err("Expecting value", i)
        ELSE LET n == DigitsValue(s, d, e, 0)
             IN  Ok(Num(IF neg THEN 0 - n ELSE n), e)

RECURSIVE ScanOnce(_, _), ArrayItems(_, _, _), ObjectItems(_, _, _)

\* scan_once: one JSON value starting at s[i]
ScanOnce(s, i) ==
    LET c == CharAt(s, i)
    IN  IF c = "" THEN Err("Expecting value", i)
        ELSE IF c = QUOTE THEN
            LET r == ScanString(s, i + 1, i + 1)
            IN  IF r.ok THEN Ok(Str(r.val), r.end) ELSE r
        ELSE IF c = "{" THEN
            LET j == IF CharAt(s, i + 1) # QUOTE THEN SkipWs(s, i + 1) ELSE i + 1
            IN  IF CharAt(s, j) = "}" THEN Ok(Dict(<<>>), j + 1)
                ELSE IF CharAt(s, j) # QUOTE
                THEN Err("Expecting property name enclosed in double quotes", j)
                ELSE ObjectItems(s, j + 1, <<>>)
        ELSE IF c = "[" THEN
            LET j == SkipWs(s, i + 1)
            IN  IF CharAt(s, j) = "]" THEN Ok(List(<<>>), j + 1)
                ELSE ArrayItems(s, j, <<>>)
        ELSE IF MatchAt(s, i, <<"n", "u", "l", "l">>) THEN Ok(None, i + 4)
        ELSE IF MatchAt(s, i, <<"t", "r", "u", "e">>) THEN Ok(Bool(TRUE), i + 4)
        ELSE IF MatchAt(s, i, <<"f", "a", "l", "s", "e">>) THEN Ok(Bool(FALSE), i + 5)
        ELSE LET r == ScanNumber(s, i)
             IN  IF r.ok THEN r
                 ELSE IF MatchAt(s, i, <<"N", "a", "N">>) THEN Ok(Float("nan"), i + 3)
                 ELSE IF MatchAt(s, i, <<"I", "n", "f", "i", "n", "i", "t", "y">>)
                 THEN Ok(Float("inf"), i + 8)
                 ELSE IF MatchAt(s, i, <<"-", "I", "n", "f", "i", "n", "i", "t", "y">>)
                 THEN Ok(Float("-inf"), i + 9)
                 ELSE r

\* JSONArray: i is the start of the next element
ArrayItems(s, i, acc) ==
    LET r == ScanOnce(s, i)
    IN  IF ~r.ok THEN r
        ELSE LET j == SkipWs(s, r.end)
                 items == Append(acc, r.val)
             IN  IF CharAt(s, j) = "]" THEN Ok(List(items), j + 1)
                 ELSE IF CharAt(s, j) # "," THEN Err("Expecting ',' delimiter", j)
                 ELSE ArrayItems(s, SkipWs(s, j + 1), items)

\* JSONObject: i is the index after the opening quote of the next key
ObjectItems(s, i, acc) ==
    LET k == ScanString(s, i, i)
    IN  IF ~k.ok THEN k
        ELSE
        LET c == IF CharAt(s, k.end) # ":" THEN SkipWs(s, k.end) ELSE k.end
        IN  IF CharAt(s, c) # ":" THEN Err("Expecting ':' delimiter", c)
            ELSE
            LET r == ScanOnce(s, SkipWs(s, c + 1))
            IN  IF ~r.ok THEN r
                ELSE
                LET j == SkipWs(s, r.end)
                    pairs == Append(acc, KV(k.val, r.val))
                IN  IF CharAt(s, j) = "}" THEN Ok(Dict(pairs), j + 1)
                    ELSE IF CharAt(s, j) # "," THEN Err("Expecting ',' delimiter", j)
                    ELSE LET q == SkipWs(s, j + 1)
                         IN  IF CharAt(s, q) # QUOTE
                             THEN Err("Expecting property name enclosed in double quotes", q)
                             ELSE ObjectItems(s, q + 1, pairs)

\* JSONDecoder.decode: one value, surrounded by whitespace only
JsonLoads(s) ==
    LET r == ScanOnce(s, SkipWs(s, 1))
    IN  IF ~r.ok THEN r
        ELSE LET e == SkipWs(s, r.end)
             IN  IF e # Len(s) + 1 THEN Err("Extra data", e) ELSE r

\* ------------------------------------------------------------------------
\* dict.get, truthiness, min/max and slicing as Python evaluates them
\* ------------------------------------------------------------------------

\* dict(pairs): the last pair with a key wins
RECURSIVE DictGet(_, _, _)
DictGet(pairs, key, default) ==
    IF pairs = <<>> THEN default
    ELSE IF pairs[Len(pairs)].k = key THEN pairs[Len(pairs)].v
    ELSE DictGet(SubSeq(pairs, 1, Len(pairs) - 1), key, default)

HasKey(pairs, key) == \E i \in 1..Len(pairs) : pairs[i].k = key

Falsy(x) ==
    \/ x.t = "null"
    \/ x.t = "bool" /\ ~x.v
    \/ x.t = "num" /\ x.v = 0
    \/ x.t \in {"str", "list", "dict"} /\ x.v = <<>>

\* ordering against an int: True is 1 and False is 0; nan is neither
\* greater nor less than any number
Comparable(x) == x.t \in {"num", "bool", "float"}
AsInt(x) == IF x.t = "bool" THEN (IF x.v THEN 1 ELSE 0) ELSE x.v
GreaterThan(x, n) == IF x.t = "float" THEN x.v = "inf" ELSE AsInt(x) > n
LessThan(x, n) == IF x.t = "float" THEN x.v = "-inf" ELSE AsInt(x) < n

Raise(exc) == [raised |-> TRUE, exc |-> exc]
Value(x) == [raised |-> FALSE, val |-> x]

\* ------------------------------------------------------------------------
\* Keys of the model's reply and the fallback literals (lines 98-107,
\* 256-261), as str values
\* ------------------------------------------------------------------------

K_name == <<"n", "a", "m", "e">>
K_email == <<"e", "m", "a", "i", "l">>
K_phone == <<"p", "h", "o", "n", "e">>
K_priorityScore == <<"p", "r", "i", "o", "r", "i", "t", "y", "S", "c", "o", "r", "e">>
K_summary == <<"s", "u", "m", "m", "a", "r", "y">>
K_keySkills == <<"k", "e", "y", "S", "k", "i", "l", "l", "s">>
K_experience == <<"e", "x", "p", "e", "r", "i", "e", "n", "c", "e">>
K_education == <<"e", "d", "u", "c", "a", "t", "i", "o", "n">>
K_highlights == <<"h", "i", "g", "h", "l", "i", "g", "h", "t", "s">>
K_concerns == <<"c", "o", "n", "c", "e", "r", "n", "s">>
K_jobRelevancyScore == <<"j", "o", "b", "R", "e", "l", "e", "v", "a", "n", "c", "y", "S", "c", "o", "r", "e">>
K_jobMatchSummary == <<"j", "o", "b", "M", "a", "t", "c", "h", "S", "u", "m", "m", "a", "r", "y">>
K_skillMatches == <<"s", "k", "i", "l", "l", "M", "a", "t", "c", "h", "e", "s">>
K_skillGaps == <<"s", "k", "i", "l", "l", "G", "a", "p", "s">>
K_strengths == <<"s", "t", "r", "e", "n", "g", "t", "h", "s">>
K_recommendations == <<"r", "e", "c", "o", "m", "m", "e", "n", "d", "a", "t", "i", "o", "n", "s">>

S_Unknown == <<"U", "n", "k", "n", "o", "w", "n">>
S_UnknownEmail == <<"u", "n", "k", "n", "o", "w", "n", "@", "e", "x", "a", "m", "p", "l", "e", ".", "c", "o", "m">>
S_NoSummary == <<"N", "o", " ", "s", "u", "m", "m", "a", "r", "y", " ", "a", "v", "a", "i", "l", "a", "b", "l", "e">>
S_NotSpecified == <<"N", "o", "t", " ", "s", "p", "e", "c", "i", "f", "i", "e", "d">>
S_NoMatchSummary == <<"N", "o", " ", "m", "a", "t", "c", "h", " ", "s", "u", "m", "m", "a", "r", "y", " ", "a", "v", "a", "i", "l", "a", "b", "l", "e">>

SCORE_MIN == 0
SCORE_MAX == 100
ScoreDefaultIsMin == SCORE_MIN
SCORE_DEFAULT == 50
MAX_KEY_SKILLS == 10
MAX_HIGHLIGHTS == 5
MAX_CONCERNS == 3
MAX_SKILL_MATCHES == 10
MAX_SKILL_GAPS == 10
MAX_STRENGTHS == 5
MAX_RECOMMENDATIONS == 3

\* ------------------------------------------------------------------------
\* Field rules of the projection
\* ------------------------------------------------------------------------

\* analysis.get(key) without a default
GetNoDefault(d, key, default) == DictGet(d, key, None)

\* analysis.get(key, default): the default applies only to a missing key
Get(d, key, default) == DictGet(d, key, default)

ClampScoreNoUpper(x) ==
    IF ~Comparable(x) THEN Raise("TypeError")
    ELSE Value(IF GreaterThan(x, SCORE_MIN) THEN x ELSE Num(SCORE_MIN))

\* min(100, max(0, x)): max(0, x) is x when x > 0 and 0 otherwise,
\* min(100, m) is m when m < 100 and 100 otherwise; ordering None, a str,
\* a list or a dict against an int raises TypeError.
ClampScore(x) ==
    IF ~Comparable(x) THEN Raise("TypeError")
    ELSE LET m == IF GreaterThan(x, SCORE_MIN) THEN x ELSE Num(SCORE_MIN)
         IN  Value(IF LessThan(m, SCORE_MAX) THEN m ELSE Num(SCORE_MAX))

SliceTo(xs, n) == SubSeq(xs, 1, IF Len(xs) < n THEN Len(xs) ELSE n)

TakeListOneShort(x, n) ==
    IF Falsy(x) THEN Value(List(<<>>))
    ELSE IF x.t \in {"list", "str"} THEN Value([t |-> x.t, v |-> SliceTo(x.v, n - 1)])
    ELSE Raise("TypeError")

\* (x or [])[:n]: a falsy x is replaced by []; a list or a str is sliced;
\* a number or a bool is not subscriptable and a dict cannot be indexed by a
\* slice (TypeError; KeyError from Python 3.12 on, handled alike).
TakeList(x, n) ==
    IF Falsy(x) THEN Value(List(<<>>))
    ELSE IF x.t \in {"list", "str"} THEN Value([t |-> x.t, v |-> SliceTo(x.v, n)])
    ELSE Raise("TypeError")

Return(rec) == [kind |-> "return", value |-> rec]
RaiseExc(exc, msg) == [kind |-> "raise", exc |-> exc, msg |-> msg]

\* the first of the evaluated fields that raises ends the projection
FirstRaised(rs) ==
    LET bad == {i \in 1..Len(rs) : rs[i].raised}
    IN  IF bad = {} THEN "" ELSE rs[CHOOSE i \in bad : \A j \in bad : i <= j].exc

\* lines 97-108
ProjectResume(analysis) ==
    IF analysis.t # "dict"
    THEN RaiseExc("AttributeError", <<"object has no attribute 'get'">>)
    ELSE
    LET d == analysis.v
        score == ClampScore(Get(d, K_priorityScore, Num(SCORE_DEFAULT)))
        skills == TakeList(Get(d, K_keySkills, List(<<>>)), MAX_KEY_SKILLS)
        high == TakeList(Get(d, K_highlights, List(<<>>)), MAX_HIGHLIGHTS)
        conc == TakeList(Get(d, K_concerns, List(<<>>)), MAX_CONCERNS)
        exc == FirstRaised(<<score, skills, high, conc>>)
    IN  IF exc # "" THEN RaiseExc(exc, <<"unsupported operand">>)
        ELSE Return([name |-> Get(d, K_name, Str(S_Unknown)),
                     email |-> Get(d, K_email, Str(S_UnknownEmail)),
                     phone |-> Get(d, K_phone, None),
                     priority_score |-> score.val,
                     summary |-> Get(d, K_summary, Str(S_NoSummary)),
                     key_skills |-> skills.val,
                     experience |-> Get(d, K_experience, Str(S_NotSpecified)),
                     education |-> Get(d, K_education, Str(S_NotSpecified)),
                     highlights |-> high.val,
                     concerns |-> conc.val])

\* lines 255-262
ProjectJobMatch(analysis) ==
    IF analysis.t # "dict"
    THEN RaiseExc("AttributeError", <<"object has no attribute 'get'">>)
    ELSE
    LET d == analysis.v
        score == ClampScore(Get(d, K_jobRelevancyScore, Num(SCORE_DEFAULT)))
        matches == TakeList(Get(d, K_skillMatches, List(<<>>)), MAX_SKILL_MATCHES)
        gaps == TakeList(Get(d, K_skillGaps, List(<<>>)), MAX_SKILL_GAPS)
        strengths == TakeList(Get(d, K_strengths, List(<<>>)), MAX_STRENGTHS)
        recs == TakeList(Get(d, K_recommendations, List(<<>>)), MAX_RECOMMENDATIONS)
        exc == FirstRaised(<<score, matches, gaps, strengths, recs>>)
    IN  IF exc # "" THEN RaiseExc(exc, <<"unsupported operand">>)
        ELSE Return([job_relevancy_score |-> score.val,
                     job_match_summary |-> Get(d, K_jobMatchSummary, Str(S_NoMatchSummary)),
                     skill_matches |-> matches.val,
                     skill_gaps |-> gaps.val,
                     strengths |-> strengths.val,
                     recommendations |-> recs.val])

\* str(e) of a JSONDecodeError: the message and the position
JsonError(r) == RaiseExc("JSONDecodeError", <<r.err, ToString(r.pos)>>)

\* _parse_gemini_response (lines 73-108)
ParseGeminiResponse(text) ==
    LET r == JsonLoads(CleanText(text))
    IN  IF ~r.ok THEN JsonError(r) ELSE ProjectResume(r.val)

\* _parse_job_match_response (lines 231-262)
ParseJobMatchResponse(text) ==
    LET r == JsonLoads(CleanText(text))
    IN  IF ~r.ok THEN JsonError(r) ELSE ProjectJobMatch(r.val)

\* ------------------------------------------------------------------------
\* Replies of the generative model (response.text, lines 130, 189, 299,
\* 364): JSON texts written the way json.dumps writes them, bare or inside
\* a fence, and texts that are not JSON.
\* ------------------------------------------------------------------------

MaxListLen == 11
MaxScore == 150

RECURSIVE NatChars(_)
NatChars(n) ==
    IF n < 10 THEN <<DigitChars[n + 1]>>
    ELSE NatChars(n \div 10) \o <<DigitChars[(n % 10) + 1]>>

IntChars(n) == IF n < 0 THEN <<"-">> \o NatChars(0 - n) ELSE NatChars(n)

RECURSIVE Dumps(_), DumpsItems(_), DumpsPairs(_)
Dumps(x) ==
    CASE x.t = "null" -> <<"n", "u", "l", "l">>
      [] x.t = "bool" -> IF x.v THEN <<"t", "r", "u", "e">>
                                ELSE <<"f", "a", "l", "s", "e">>
      [] x.t = "num" -> IntChars(x.v)
      [] x.t = "float" ->
            IF x.v = "nan" THEN <<"N", "a", "N">>
            ELSE IF x.v = "inf" THEN <<"I", "n", "f", "i", "n", "i", "t", "y">>
            ELSE <<"-", "I", "n", "f", "i", "n", "i", "t", "y">>
      [] x.t = "str" -> <<QUOTE>> \o x.v \o <<QUOTE>>
      [] x.t = "list" -> <<"[">> \o DumpsItems(x.v) \o <<"]">>
      [] x.t = "dict" -> <<"{">> \o DumpsPairs(x.v) \o <<"}">>

DumpsItems(xs) ==
    IF xs = <<>> THEN <<>>
    ELSE IF Len(xs) = 1 THEN Dumps(xs[1])
    ELSE Dumps(xs[1]) \o <<",", SP>> \o DumpsItems(Tail(xs))

DumpsPairs(ps) ==
    IF ps = <<>> THEN <<>>
    ELSE LET one == <<QUOTE>> \o ps[1].k \o <<QUOTE, ":", SP>> \o Dumps(ps[1].v)
         IN  IF Len(ps) = 1 THEN one
             ELSE one \o <<",", SP>> \o DumpsPairs(Tail(ps))

Item(i) == Str(<<"s">> \o NatChars(i))
ListOfLen(n) == List([i \in 1..n |-> Item(i)])
ListDescending(n) == List([i \in 1..n |-> Item(n + 1 - i)])

ScoreValues == {-5, -1, 0, 1, 50, 85, 99, 100, 101, MaxScore}

ScoreVariants ==
    {Num(n) : n \in ScoreValues}
        \cup {Float("nan"), Float("inf"), Float("-inf")}
        \cup {None, Str(<<"h", "i", "g", "h">>), Bool(TRUE), Bool(FALSE), List(<<>>)}

StringVariants ==
    {Str(<<"A", "d", "a">>), Str(<<>>), None, Num(7), Float("nan"),
     List(<<Str(<<"x">>)>>)}

ListVariants ==
    {ListOfLen(n) : n \in 0..MaxListLen}
        \cup {ListDescending(n) : n \in {2, MaxListLen}}
        \cup {None, Str(<<"p", "y">>), Num(5), Num(0), Bool(TRUE), Dict(<<>>),
              Float("inf"),
              Dict(<<KV(<<"a">>, Num(1))>>), List(<<Num(1), None>>)}

ResumeStringKeys == {K_name, K_email, K_phone, K_summary, K_experience, K_education}
ResumeListKeys == {K_keySkills, K_highlights, K_concerns}
JobListKeys == {K_skillMatches, K_skillGaps, K_strengths, K_recommendations}

FullResume ==
    Dict(<<KV(K_name, Str(<<"A", "d", "a">>)),
           KV(K_email, Str(<<"a", "@", "b", ".", "c">>)),
           KV(K_phone, None),
           KV(K_priorityScore, Num(85)),
           KV(K_summary, Str(<<"G", "o", "o", "d">>)),
           KV(K_keySkills, ListOfLen(2)),
           KV(K_experience, Str(<<"5", "y">>)),
           KV(K_education, Str(<<"B", "S", "c">>)),
           KV(K_highlights, ListOfLen(1)),
           KV(K_concerns, List(<<>>))>>)

FullJobMatch ==
    Dict(<<KV(K_jobRelevancyScore, Num(85)),
           KV(K_jobMatchSummary, Str(<<"F", "i", "t">>)),
           KV(K_skillMatches, ListOfLen(2)),
           KV(K_skillGaps, List(<<>>)),
           KV(K_strengths, ListOfLen(1)),
           KV(K_recommendations, List(<<>>))>>)

SingleKey(keys, variants) == {Dict(<<KV(k, x)>>) : k \in keys, x \in variants}

ReplyValues ==
    {Dict(<<>>), FullResume, FullJobMatch,
     Dict(<<KV(<<"e", "x", "t", "r", "a">>, Num(1))>>),
     Dict(<<KV(K_name, Str(<<"A">>)), KV(K_name, Str(<<"B">>))>>),
     None, Num(1), Bool(TRUE), Str(<<"o", "k">>), List(<<>>), List(<<Num(1)>>)}
        \cup SingleKey({K_priorityScore, K_jobRelevancyScore}, ScoreVariants)
        \cup SingleKey(ResumeStringKeys \cup {K_jobMatchSummary}, StringVariants)
        \cup SingleKey(ResumeListKeys \cup JobListKeys, ListVariants)

JsonBodies == {Dumps(x) : x \in ReplyValues}

\* texts that are not JSON
NonJsonBodies ==
    {<<>>,
     <<"I", " ", "c", "a", "n", "n", "o", "t", ".">>,
     <<"{">>,
     <<"{", "\"", "n", "a", "m", "e", "\"">>,
     <<"{", "\"", "n", "a", "m", "e", "\"", ":", " ", "}">>,
     <<"{", "\"", "n", "a", "m", "e", "\"", ":", " ", "\"", "A", "\"", ",", "}">>,
     <<"{", "'", "n", "a", "m", "e", "'", ":", " ", "1", "}">>,
     <<"[", "1", ",", "]">>,
     <<"{", "}", " ", "x">>,
     <<"n", "u", "l">>,
     <<"N", "a", "n">>,
     <<"-", "I", "n", "f">>,
     <<"0", "1">>,
     <<"\"", "o", "p", "e", "n">>}

ReplyBodies == JsonBodies \cup NonJsonBodies

Wraps == {"bare", "padded", "json_fence", "json_fence_padded", "plain_fence",
          "plain_fence_tight", "json_fence_unclosed"}

FenceWraps == {"json_fence", "json_fence_padded", "plain_fence", "plain_fence_tight"}

WrapReply(w, body) ==
    CASE w = "bare" -> body
      [] w = "padded" -> <<NL, SP>> \o body \o <<SP, NL>>
      [] w = "json_fence" -> FENCE_JSON \o <<NL>> \o body \o <<NL>> \o FENCE
      [] w = "json_fence_padded" ->
            <<SP>> \o FENCE_JSON \o <<NL>> \o body \o <<NL>> \o FENCE \o <<NL>>
      [] w = "plain_fence" -> FENCE \o <<NL>> \o body \o <<NL>> \o FENCE
      [] w = "plain_fence_tight" -> FENCE \o body \o FENCE
      [] w = "json_fence_unclosed" -> FENCE_JSON \o <<NL>> \o body

\* ------------------------------------------------------------------------
\* File dispatch (lines 156-174, 331-350)
\* ------------------------------------------------------------------------

UpperChars == <<"A", "B", "C", "D", "E", "F", "G", "H", "I", "J", "K", "L", "M", "N", "O", "P", "Q", "R", "S", "T", "U", "V", "W", "X", "Y", "Z">>
LowerChars == <<"a", "b", "c", "d", "e", "f", "g", "h", "i", "j", "k", "l", "m", "n", "o", "p", "q", "r", "s", "t", "u", "v", "w", "x", "y", "z">>

LowerChar(c) ==
    IF \E i \in 1..26 : UpperChars[i] = c
    THEN LowerChars[CHOOSE i \in 1..26 : UpperChars[i] = c]
    ELSE c

\* str.lower()
Lower(s) == [i \in 1..Len(s) |-> LowerChar(s[i])]

\* str.rfind as a 1-based index, 0 when the character does not occur
LastIndexOf(s, c) ==
    LET at == {i \in 1..Len(s) : s[i] = c}
    IN  IF at = {} THEN 0 ELSE CHOOSE i \in at : \A j \in at : j <= i

\* os.path.splitext(p)[1]: from the last dot of the last path component,
\* unless that component has nothing but dots before it
SplitExt(p) ==
    LET sepIndex == LastIndexOf(p, "/")
        dotIndex == LastIndexOf(p, ".")
    IN  IF dotIndex > sepIndex
            /\ \E i \in (sepIndex + 1)..(dotIndex - 1) : p[i] # "."
        THEN SubSeq(p, dotIndex, Len(p))
        ELSE <<>>

ExtOfCaseSensitive(path) == SplitExt(path)

\* ext = os.path.splitext(file_path)[1].lower()
ExtOf(path) == Lower(SplitExt(path))

EXT_TXT == <<".", "t", "x", "t">>
EXT_PDF == <<".", "p", "d", "f">>
EXT_DOC == <<".", "d", "o", "c">>
EXT_DOCX == <<".", "d", "o", "c", "x">>

MIME_PDF == "application/pdf"
MIME_DOC == "application/msword"
MIME_DOCX == "application/vnd.openxmlformats-officedocument.wordprocessingml.document"

MimeTypeStrict(e) ==
    IF e = EXT_PDF THEN MIME_PDF
    ELSE IF e = EXT_DOC THEN MIME_DOC
    ELSE IF e = EXT_DOCX THEN MIME_DOCX
    ELSE "application/octet-stream"

\* mime_types.get(ext, 'application/pdf')
MimeType(e) ==
    IF e = EXT_PDF THEN MIME_PDF
    ELSE IF e = EXT_DOC THEN MIME_DOC
    ELSE IF e = EXT_DOCX THEN MIME_DOCX
    ELSE MIME_PDF

\* ------------------------------------------------------------------------
\* The four analysis operations
\* ------------------------------------------------------------------------

TextOps == {"analyze_resume", "analyze_resume_for_job"}
FileOps == {"analyze_resume_from_file", "analyze_resume_file_for_job"}
JobOps == {"analyze_resume_for_job", "analyze_resume_file_for_job"}
Ops == TextOps \cup FileOps

\* the operation a file operation delegates a .txt file to (lines 162, 337)
InlineOpOf(fn) ==
    IF fn = "analyze_resume_from_file" THEN "analyze_resume"
    ELSE "analyze_resume_for_job"

FailurePrefixCopied(fn) == "Failed to analyze resume"

\* the message prefix of the generic except clause of each operation
\* (lines 135, 195, 304, 370)
FailurePrefix(fn) ==
    CASE fn = "analyze_resume" -> "Failed to analyze resume"
      [] fn = "analyze_resume_from_file" -> "Failed to analyze resume file"
      [] fn = "analyze_resume_for_job" -> "Failed to analyze resume for job"
      [] fn = "analyze_resume_file_for_job" -> "Failed to analyze resume file for job"

PARSE_PREFIX == "Failed to parse AI response"

DefaultRecord(fn) ==
    IF fn \in JobOps THEN ProjectJobMatch(Dict(<<>>)) ELSE ProjectResume(Dict(<<>>))

HandleDefaulting(fn, e) ==
    IF e.exc = "JSONDecodeError" THEN DefaultRecord(fn)
    ELSE RaiseExc("Exception", <<FailurePrefix(fn)>> \o e.msg)

HandleGeneric(fn, e) ==
    RaiseExc("Exception", <<FailurePrefix(fn)>> \o e.msg)

\* the two except clauses of an operation: what leaves the operation when e
\* is raised inside its try block
Handle(fn, e) ==
    IF e.exc = "JSONDecodeError"
    THEN RaiseExc("Exception", <<PARSE_PREFIX>> \o e.msg)
    ELSE RaiseExc("Exception", <<FailurePrefix(fn)>> \o e.msg)

ParseFor(fn, t) ==
    IF fn \in JobOps THEN ParseJobMatchResponse(t) ELSE ParseGeminiResponse(t)

OrNotSpecifiedNullOnly(x) == IF x = None THEN Str(S_NotSpecified) ELSE x

\* x or "Not specified"
OrNotSpecified(x) == IF Falsy(x) THEN Str(S_NotSpecified) ELSE x

ATTACHED_PLACEHOLDER == <<"[", "S", "e", "e", " ", "a", "t", "t", "a", "c", "h", "e", "d", " ", "r", "e", "s", "u", "m", "e", " ", "f", "i", "l", "e", "]">>

JobTitle == Str(<<"E", "n", "g", "i", "n", "e", "e", "r">>)

PromptOfInlineContent(fn, content, requirements, description) ==
    IF fn \in JobOps
    THEN [template |-> "JOB_MATCH_PROMPT",
          job_title |-> JobTitle,
          job_requirements |-> OrNotSpecified(requirements),
          job_description |-> OrNotSpecified(description),
          resume_content |-> content]
    ELSE [template |-> "RESUME_ANALYSIS_PROMPT",
          job_title |-> None,
          job_requirements |-> None,
          job_description |-> None,
          resume_content |-> content]

\* the prompt an operation sends: the template and the values of its slots
\* (lines 128, 185, 289-294, 352-357)
PromptOf(fn, content, requirements, description) ==
    IF fn \in JobOps
    THEN [template |-> "JOB_MATCH_PROMPT",
          job_title |-> JobTitle,
          job_requirements |-> OrNotSpecified(requirements),
          job_description |-> OrNotSpecified(description),
          resume_content |-> IF fn \in FileOps THEN Str(ATTACHED_PLACEHOLDER)
                                               ELSE content]
    ELSE [template |-> "RESUME_ANALYSIS_PROMPT",
          job_title |-> None,
          job_requirements |-> None,
          job_description |-> None,
          resume_content |-> IF fn \in FileOps THEN None ELSE content]

Call(api, arg) == [api |-> api, arg |-> arg]

\* ------------------------------------------------------------------------
\* The normalizers applied to one reply
\* ------------------------------------------------------------------------

\* one reply handed to a normalizer
VARIABLES reply_body, reply_wrap, text, parser, cleaned_text, result

\* one invocation of an analysis operation: its arguments, the settings,
\* the call stack and position, its locals, the calls made to the file
\* system and the external service, and what leaves the operation
VARIABLES op, api_key, file_path, resume_text, job_requirements,
          job_description, stack, pc, ext, mime_type, calls, response_text,
          outcome

nvars == <<reply_body, reply_wrap, text, parser, cleaned_text, result>>

ovars == <<op, api_key, file_path, resume_text, job_requirements,
           job_description, stack, pc, ext, mime_type, calls, response_text,
           outcome>>

\* one request to ApplicantUploadView.post or JobApplicationView.post: the
\* request, the handler's position and locals, the temporary files on disk,
\* the stored files, the applicants table, a pending exception and the
\* response
VARIABLES view, request, view_pc, job, temp_file_path, temp_files,
          general_analysis, job_analysis, storage, storage_url, input_data,
          applicants, raised, response

wvars == <<view, request, view_pc, job, temp_file_path, temp_files,
           general_analysis, job_analysis, storage, storage_url, input_data,
           applicants, raised, response>>

\* two analysis requests served at the same time by one process: the
\* settings, the configuration genai.configure keeps for the whole process
\* (and which request wrote it), and per request its arguments, position,
\* the configuration its generation call read, the reply it received and
\* what it returned
VARIABLES GEMINI_API_KEY, genai_config, requests, request_pc, config_read,
          response_texts, outcomes

cvars == <<GEMINI_API_KEY, genai_config, requests, request_pc, config_read,
           response_texts, outcomes>>

\* one request to a view protected by require_auth: the Authorization
\* header, the clock, the recruiters table, what the middleware set on the
\* request, the position, the number of times the view body ran and the
\* response
VARIABLES auth_header, now, recruiters, recruiter, recruiter_id, auth_pc,
          view_calls, auth_response

avars == <<auth_header, now, recruiters, recruiter, recruiter_id, auth_pc,
           view_calls, auth_response>>

\* the job_postings table
VARIABLES job_postings

\* two requests of recruiters to the job and applicant endpoints served at
\* the same time: per request its endpoint, caller and arguments, its
\* position, what its handler read before it acts (the local existing,
\* job or applicant) and its response
VARIABLES api_requests, api_pc, existing, api_responses

mvars == <<api_requests, api_pc, existing, api_responses>>

\* one call of services.login from LoginView.post: the credentials, the
\* position, the row get_recruiter_by_email returned, what login returns
\* or raises and the response of the view
VARIABLES login_input, login_pc, recruiter_raw, login_outcome, login_response

lvars == <<login_input, login_pc, recruiter_raw, login_outcome, login_response>>

vars == <<nvars, ovars, wvars, cvars, avars, job_postings, mvars, lvars>>

\* the variables the actions of a specification leave alone
outside_norm == <<ovars, wvars, cvars, avars, job_postings, mvars, lvars>>
outside_ops == <<nvars, wvars, cvars, avars, job_postings, mvars, lvars>>
outside_views == <<nvars, ovars, cvars, avars, job_postings, mvars, lvars>>
outside_concurrent == <<nvars, ovars, wvars, avars, job_postings, mvars, lvars>>
outside_auth == <<nvars, ovars, wvars, cvars, job_postings, mvars, lvars>>

\* what the handlers of the upload views keep between their steps
view_locals ==
    <<view, request, view_pc, job, temp_file_path, general_analysis,
      job_analysis, storage_url, input_data, raised, response>>

\* what a protected request keeps, apart from the recruiters table and the
\* clock
auth_locals ==
    <<auth_header, recruiter, recruiter_id, auth_pc, view_calls, auth_response>>

outside_manage == <<nvars, ovars, cvars, avars, lvars, view_locals>>
outside_login == <<nvars, ovars, wvars, cvars, job_postings, mvars, auth_locals>>

NoResult == [kind |-> "none"]

\* no request is being handled
ViewsIdle ==
    /\ view = "none" /\ request = NoResult /\ view_pc = "idle" /\ job = None
    /\ temp_file_path = None /\ temp_files = {} /\ general_analysis = NoResult
    /\ job_analysis = NoResult /\ storage = {} /\ storage_url = None
    /\ input_data = NoResult /\ applicants = <<>> /\ raised = NoResult
    /\ response = NoResult

\* no recruiter request is being served and nothing is read from the
\* job_postings table
ApiIdle ==
    /\ api_requests = <<>> /\ api_pc = <<>> /\ existing = <<>>
    /\ api_responses = <<>>

ManageIdle == job_postings = {} /\ ApiIdle

\* nobody is logging in
LoginIdle ==
    /\ login_input = NoResult /\ login_pc = "idle" /\ recruiter_raw = None
    /\ login_outcome = NoResult /\ login_response = NoResult

\* no concurrent requests are being served
ConcurrentIdle ==
    /\ GEMINI_API_KEY = "" /\ genai_config = NoResult /\ requests = <<>>
    /\ request_pc = <<>> /\ config_read = <<>> /\ response_texts = <<>>
    /\ outcomes = <<>>

\* no protected view is being requested
AuthIdle ==
    /\ auth_header = <<>> /\ now = 0 /\ recruiters = <<>> /\ recruiter = None
    /\ recruiter_id = None /\ auth_pc = "idle" /\ view_calls = 0
    /\ auth_response = NoResult

\* no operation is running
OpsIdle ==
    /\ op = "none" /\ api_key = "" /\ file_path = <<>> /\ resume_text = None
    /\ job_requirements = None /\ job_description = None
    /\ stack = <<>> /\ pc = "idle" /\ ext = <<>> /\ mime_type = ""
    /\ calls = <<>> /\ response_text = None /\ outcome = NoResult

\* no reply is being normalized on its own
NormIdle ==
    /\ reply_body = <<>> /\ reply_wrap = "bare" /\ text = <<>>
    /\ parser = "none" /\ cleaned_text = <<>> /\ result = NoResult

NormInit ==
    /\ reply_body \in ReplyBodies
    /\ reply_wrap \in Wraps
    /\ text = WrapReply(reply_wrap, reply_body)
    /\ parser \in {"_parse_gemini_response", "_parse_job_match_response"}
    /\ cleaned_text = <<>>
    /\ result = NoResult
    /\ OpsIdle
    /\ ViewsIdle
    /\ ConcurrentIdle
    /\ AuthIdle
    /\ ManageIdle
    /\ LoginIdle

parse_gemini_response ==
    /\ parser = "_parse_gemini_response"
    /\ result = NoResult
    /\ cleaned_text' = CleanText(text)
    /\ result' = ParseGeminiResponse(text)
    /\ UNCHANGED <<reply_body, reply_wrap, text, parser, outside_norm>>

parse_job_match_response ==
    /\ parser = "_parse_job_match_response"
    /\ result = NoResult
    /\ cleaned_text' = CleanText(text)
    /\ result' = ParseJobMatchResponse(text)
    /\ UNCHANGED <<reply_body, reply_wrap, text, parser, outside_norm>>

NormNext == parse_gemini_response \/ parse_job_match_response

SpecNorm == NormInit /\ [][NormNext]_vars

\* ------------------------------------------------------------------------
\* One invocation of an analysis operation, step by step
\* ------------------------------------------------------------------------

Paths ==
    {<<"c", "v", ".", "t", "x", "t">>,
     <<"c", "v", ".", "T", "X", "T">>,
     <<"c", "v", ".", "T", "x", "t">>,
     <<"c", "v", ".", "p", "d", "f">>,
     <<"c", "v", ".", "P", "D", "F">>,
     <<"c", "v", ".", "d", "o", "c">>,
     <<"c", "v", ".", "d", "o", "c", "x">>,
     <<"c", "v", ".", "r", "t", "f">>,
     <<"c", "v">>,
     <<".", "t", "x", "t">>,
     <<".", "p", "d", "f">>,
     <<"a", ".", "b", "/", "c", "v">>,
     <<"c", "v", ".", "t", "x", "t", ".", "p", "d", "f">>,
     <<"c", "v", ".", "p", "d", "f", ".", "t", "x", "t">>,
     <<"t", "m", "p", "/", "x", ".", "t", "x", "t">>}

ResumeTexts == {Str(<<"5", "y", " ", "P", "y", "t", "h", "o", "n">>)}

JobRequirementValues == {None, Str(<<>>), Str(<<"P", "y", "t", "h", "o", "n">>)}
JobDescriptionValues == {None, Str(<<>>), Str(<<"A", "P", "I", "s">>)}

\* replies of the model met by the operations
OpReplies ==
    {<<>>,
     <<"I", " ", "c", "a", "n", "n", "o", "t", ".">>,
     WrapReply("json_fence", <<"n", "o", "t", " ", "j", "s", "o", "n">>),
     Dumps(FullResume),
     Dumps(FullJobMatch),
     WrapReply("json_fence", Dumps(FullResume)),
     WrapReply("plain_fence", Dumps(FullJobMatch)),
     Dumps(Dict(<<>>)),
     Dumps(Dict(<<KV(K_priorityScore, None), KV(K_jobRelevancyScore, None)>>)),
     Dumps(List(<<>>))}

OpsInit ==
    /\ op \in Ops
    /\ api_key \in {"", "key"}
    /\ file_path \in (IF op \in FileOps THEN Paths ELSE {<<>>})
    /\ resume_text \in (IF op \in TextOps THEN ResumeTexts ELSE {None})
    /\ job_requirements \in (IF op \in JobOps THEN JobRequirementValues ELSE {None})
    /\ job_description \in (IF op \in JobOps THEN JobDescriptionValues ELSE {None})
    /\ stack = <<op>>
    /\ pc = "configure"
    /\ ext = <<>>
    /\ mime_type = ""
    /\ calls = <<>>
    /\ response_text = None
    /\ outcome = NoResult
    /\ NormIdle
    /\ ViewsIdle
    /\ ConcurrentIdle
    /\ AuthIdle
    /\ ManageIdle
    /\ LoginIdle

Top == stack[Len(stack)]

\* where control goes when the running operation is left
Leave == IF Len(stack) > 1 THEN "returning" ELSE "done"

FailRetrying(exc, msg) ==
    /\ outcome' = outcome
    /\ pc' = pc

\* an exception raised inside the try block of the running operation
Fail(exc, msg) ==
    /\ outcome' = Handle(Top, RaiseExc(exc, msg))
    /\ pc' = Leave

configure_genai_unchecked ==
    /\ pc = "configure"
    /\ calls' = Append(calls, Call("genai.configure", api_key))
    /\ pc' = IF Top \in FileOps THEN "dispatch" ELSE "generate"
    /\ UNCHANGED <<op, api_key, file_path, resume_text, job_requirements,
                   job_description, stack, ext, mime_type, response_text,
                   outcome, outside_ops>>

\* _configure_genai (lines 38-43), called first by every operation
configure_genai ==
    /\ pc = "configure"
    /\ IF api_key = ""
       THEN /\ Fail("ValueError", <<"GEMINI_API_KEY is not configured">>)
            /\ UNCHANGED calls
       ELSE /\ calls' = Append(calls, Call("genai.configure", api_key))
            /\ pc' = IF Top \in FileOps THEN "dispatch" ELSE "generate"
            /\ UNCHANGED outcome
    /\ UNCHANGED <<op, api_key, file_path, resume_text, job_requirements,
                   job_description, stack, ext, mime_type, response_text, outside_ops>>

\* lines 156-159 / 331-334: the extension decides the mode
dispatch ==
    /\ pc = "dispatch"
    /\ ext' = ExtOf(file_path)
    /\ pc' = IF ext' = EXT_TXT THEN "read_text" ELSE "read_binary"
    /\ UNCHANGED <<op, api_key, file_path, resume_text, job_requirements,
                   job_description, stack, mime_type, calls, response_text,
                   outcome, outside_ops>>

\* lines 160-162 / 335-339: the file is decoded as UTF-8 and the inline
\* operation is called with its content
read_text ==
    /\ pc = "read_text"
    /\ calls' = Append(calls, Call("open", "r utf-8"))
    /\ \/ \E content \in ResumeTexts :
            /\ resume_text' = content
            /\ stack' = Append(stack, InlineOpOf(Top))
            /\ pc' = "configure"
            /\ UNCHANGED outcome
       \/ \E e \in {"FileNotFoundError", "UnicodeDecodeError"} :
            /\ Fail(e, <<"cannot read file">>)
            /\ UNCHANGED <<resume_text, stack>>
    /\ UNCHANGED <<op, api_key, file_path, job_requirements, job_description,
                   ext, mime_type, response_text, outside_ops>>

\* lines 165-174 / 342-350: the bytes are read and the MIME type looked up
read_binary ==
    /\ pc = "read_binary"
    /\ calls' = Append(calls, Call("open", "rb"))
    /\ \/ /\ mime_type' = MimeType(ext)
          /\ pc' = "upload"
          /\ UNCHANGED outcome
       \/ /\ Fail("FileNotFoundError", <<"cannot read file">>)
          /\ UNCHANGED mime_type
    /\ UNCHANGED <<op, api_key, file_path, resume_text, job_requirements,
                   job_description, stack, ext, response_text, outside_ops>>

\* genai.upload_file (lines 181, 360)
upload_file ==
    /\ pc = "upload"
    /\ calls' = Append(calls, Call("genai.upload_file", mime_type))
    /\ \/ /\ pc' = "generate"
          /\ UNCHANGED outcome
       \/ Fail("UpstreamError", <<"upload failed">>)
    /\ UNCHANGED <<op, api_key, file_path, resume_text, job_requirements,
                   job_description, stack, ext, mime_type, response_text, outside_ops>>

\* model.generate_content and text = response.text or '' (lines 128-130,
\* 184-189, 297-299, 362-364)
generate_content ==
    /\ pc = "generate"
    /\ calls' = Append(calls,
            Call("generate_content",
                 [prompt |-> PromptOf(Top, resume_text, job_requirements,
                                      job_description),
                  attachment |-> Top \in FileOps]))
    /\ \/ \E reply \in OpReplies :
            /\ response_text' = Str(reply)
            /\ pc' = "parse"
            /\ UNCHANGED outcome
       \/ /\ Fail("UpstreamError", <<"generation failed">>)
          /\ UNCHANGED response_text
    /\ UNCHANGED <<op, api_key, file_path, resume_text, job_requirements,
                   job_description, stack, ext, mime_type, outside_ops>>

\* return _parse_..._response(text) (lines 131, 190, 300, 365)
parse_response ==
    /\ pc = "parse"
    /\ LET r == ParseFor(Top, response_text.v)
       IN  outcome' = IF r.kind = "raise" THEN Handle(Top, r) ELSE r
    /\ pc' = Leave
    /\ UNCHANGED <<op, api_key, file_path, resume_text, job_requirements,
                   job_description, stack, ext, mime_type, calls,
                   response_text, outside_ops>>

\* the inline operation returns into the file operation that called it
\* (return analyze_resume(...), lines 162 / 337, inside the try block)
return_to_caller ==
    /\ pc = "returning"
    /\ stack' = SubSeq(stack, 1, Len(stack) - 1)
    /\ outcome' = IF outcome.kind = "raise"
                  THEN Handle(stack'[Len(stack')], outcome)
                  ELSE outcome
    /\ pc' = "done"
    /\ UNCHANGED <<op, api_key, file_path, resume_text, job_requirements,
                   job_description, ext, mime_type, calls, response_text, outside_ops>>

Next ==
    \/ configure_genai
    \/ dispatch
    \/ read_text
    \/ read_binary
    \/ upload_file
    \/ generate_content
    \/ parse_response
    \/ return_to_caller

Spec == OpsInit /\ [][Next]_vars

\* ------------------------------------------------------------------------
\* The two upload views (applicants/views.py) and what they call:
\* ApplicantCreateInput (applicants/models.py), create_applicant
\* (applicants/services.py), upload_file_to_storage (core/supabase.py) and
\* get_public_job_by_id (jobs/services.py)
\* ------------------------------------------------------------------------

Views == {"ApplicantUploadView", "JobApplicationView"}

HTTP_201_CREATED == 201
HTTP_400_BAD_REQUEST == 400
HTTP_404_NOT_FOUND == 404
HTTP_500_INTERNAL_SERVER_ERROR == 500

\* settings.MAX_UPLOAD_SIZE and settings.ALLOWED_UPLOAD_TYPES
MAX_UPLOAD_SIZE == 10485760
ALLOWED_UPLOAD_TYPES ==
    {"application/pdf", "application/msword",
     "application/vnd.openxmlformats-officedocument.wordprocessingml.document",
     "text/plain"}

\* fields of the dataclass ApplicantCreateInput, in declaration order
ApplicantCreateInputFields ==
    <<"name", "email", "resume_file_path", "phone", "resume_text",
      "priority_score", "summary", "key_skills", "experience", "education",
      "highlights", "concerns", "job_posting_id">>

ApplicantCreateInputRequired == {"name", "email", "resume_file_path"}

FieldNames(fields) == {fields[i] : i \in 1..Len(fields)}

FieldDefault(f) == IF f = "priority_score" THEN Num(0) ELSE None

\* a keyword argument of a call
Kw(k, val) == [k |-> k, v |-> val]

KwNames(kwargs) == {kwargs[i].k : i \in 1..Len(kwargs)}
KwValue(kwargs, k) == kwargs[CHOOSE i \in 1..Len(kwargs) : kwargs[i].k = k].v

ApplicantCreateInputWithJobFields(kwargs) ==
    Return([f \in FieldNames(ApplicantCreateInputFields) \cup KwNames(kwargs) |->
              IF f \in KwNames(kwargs) THEN KwValue(kwargs, f) ELSE FieldDefault(f)])

\* ApplicantCreateInput(**kwargs): the generated __init__ takes the declared
\* fields only; the first keyword it does not know is a TypeError
ApplicantCreateInput(kwargs) ==
    LET known == FieldNames(ApplicantCreateInputFields)
        unexpected == {i \in 1..Len(kwargs) : kwargs[i].k \notin known}
    IN  IF unexpected # {}
        THEN RaiseExc("TypeError",
                 <<"ApplicantCreateInput.__init__() got an unexpected keyword argument",
                   kwargs[CHOOSE i \in unexpected : \A j \in unexpected : i <= j].k>>)
        ELSE IF ~(ApplicantCreateInputRequired \subseteq KwNames(kwargs))
        THEN RaiseExc("TypeError",
                 <<"ApplicantCreateInput.__init__() missing required arguments">>)
        ELSE Return([f \in known |->
                       IF f \in KwNames(kwargs) THEN KwValue(kwargs, f)
                       ELSE FieldDefault(f)])

\* the entries of insert_data in create_applicant, in evaluation order:
\* the column, the attribute read from input_data, and whether "or 0"
\* is applied
InsertEntry(col, or_zero) == [col |-> col, or_zero |-> or_zero]

InsertData ==
    <<InsertEntry("name", FALSE), InsertEntry("email", FALSE),
      InsertEntry("phone", FALSE), InsertEntry("resume_file_path", FALSE),
      InsertEntry("resume_text", FALSE), InsertEntry("priority_score", TRUE),
      InsertEntry("summary", FALSE), InsertEntry("key_skills", FALSE),
      InsertEntry("experience", FALSE), InsertEntry("education", FALSE),
      InsertEntry("highlights", FALSE), InsertEntry("concerns", FALSE),
      InsertEntry("job_posting_id", FALSE),
      InsertEntry("job_relevancy_score", TRUE),
      InsertEntry("job_match_summary", FALSE),
      InsertEntry("skill_matches", FALSE), InsertEntry("skill_gaps", FALSE)>>

OrZero(x) == IF Falsy(x) THEN Num(0) ELSE x

APPLICANT_ID == Str(<<"a", "1">>)
STATUS_NEW == Str(<<"n", "e", "w">>)

\* create_applicant up to the insert: reading an attribute input_data does
\* not have is an AttributeError; None values are dropped; the table adds
\* the id and the default status
InsertRow(input) ==
    LET missing == {i \in 1..Len(InsertData) : InsertData[i].col \notin DOMAIN input}
    IN  IF missing # {}
        THEN RaiseExc("AttributeError",
                 <<"'ApplicantCreateInput' object has no attribute",
                   InsertData[CHOOSE i \in missing : \A j \in missing : i <= j].col>>)
        ELSE
        LET val(i) == IF InsertData[i].or_zero THEN OrZero(input[InsertData[i].col])
                      ELSE input[InsertData[i].col]
            kept == {i \in 1..Len(InsertData) : val(i) # None}
            cols == {InsertData[i].col : i \in kept}
        IN  Return([c \in cols \cup {"id", "status"} |->
                      IF c = "id" THEN APPLICANT_ID
                      ELSE IF c = "status" THEN STATUS_NEW
                      ELSE val(CHOOSE i \in kept : InsertData[i].col = c)])

RowGet(row, col, default) == IF col \in DOMAIN row THEN row[col] ELSE default
OrEmptyList(x) == IF Falsy(x) THEN List(<<>>) ELSE x

\* _parse_applicant: the row as the API returns it
ParseApplicant(row) ==
    [id |-> RowGet(row, "id", None),
     name |-> RowGet(row, "name", None),
     email |-> RowGet(row, "email", None),
     phone |-> RowGet(row, "phone", None),
     resumeFilePath |-> RowGet(row, "resume_file_path", None),
     priorityScore |-> RowGet(row, "priority_score", Num(0)),
     summary |-> RowGet(row, "summary", None),
     keySkills |-> OrEmptyList(RowGet(row, "key_skills", None)),
     experience |-> RowGet(row, "experience", None),
     education |-> RowGet(row, "education", None),
     highlights |-> OrEmptyList(RowGet(row, "highlights", None)),
     concerns |-> OrEmptyList(RowGet(row, "concerns", None)),
     jobRelevancyScore |-> RowGet(row, "job_relevancy_score", Num(0)),
     jobMatchSummary |-> RowGet(row, "job_match_summary", None),
     skillMatches |-> OrEmptyList(RowGet(row, "skill_matches", None)),
     skillGaps |-> OrEmptyList(RowGet(row, "skill_gaps", None)),
     status |-> RowGet(row, "status", STATUS_NEW),
     notes |-> RowGet(row, "notes", None),
     jobPostingId |-> RowGet(row, "job_posting_id", None)]

\* rows of the job_postings table
JOB_ACTIVE == <<"j", "o", "b", "-", "1">>
JOB_DRAFT == <<"j", "o", "b", "-", "2">>
JOB_CLOSED == <<"j", "o", "b", "-", "3">>
JOB_UNKNOWN == <<"j", "o", "b", "-", "9">>

\* values of the status column of job_postings
STATUS_ACTIVE == Str(<<"a", "c", "t", "i", "v", "e">>)
STATUS_DRAFT == Str(<<"d", "r", "a", "f", "t">>)
STATUS_CLOSED == Str(<<"c", "l", "o", "s", "e", "d">>)

\* ids of recruiters: r1 and r2 have accounts, r9 has none
R1 == Str(<<"r", "1">>)
R2 == Str(<<"r", "2">>)
R9 == Str(<<"r", "9">>)

JobPostings ==
    {[id |-> JOB_ACTIVE, recruiter_id |-> R1, status |-> STATUS_ACTIVE,
      title |-> JobTitle,
      requirements |-> Str(<<"P", "y", "t", "h", "o", "n">>), description |-> None],
     [id |-> JOB_DRAFT, recruiter_id |-> R2, status |-> STATUS_DRAFT,
      title |-> JobTitle, requirements |-> None, description |-> None],
     [id |-> JOB_CLOSED, recruiter_id |-> R1, status |-> STATUS_CLOSED,
      title |-> JobTitle, requirements |-> None, description |-> None]}

\* _parse_job_posting (jobs/services.py lines 10-46): the row under the
\* names the API uses
ParseJobPosting(row) ==
    [id |-> row.id, recruiterId |-> row.recruiter_id, title |-> row.title,
     description |-> row.description, requirements |-> row.requirements,
     status |-> row.status]

\* .eq('id', job_id) on a table
RowsWithId(table, id) == {r \in table : r.id = id}

\* get_public_job_by_id: .eq('id', job_id).eq('status', 'active')
get_public_job_by_id(job_id) ==
    LET found == {j \in RowsWithId(job_postings, job_id) : j.status = STATUS_ACTIVE}
    IN  IF found = {} THEN None ELSE ParseJobPosting(CHOOSE j \in found : TRUE)

\* get_job_by_id (jobs/services.py lines 131-163)
get_job_by_id(job_id) ==
    LET found == RowsWithId(job_postings, job_id)
    IN  IF found = {} THEN None ELSE ParseJobPosting(CHOOSE j \in found : TRUE)

\* a JobPostingUpdateInput: the fields the caller sent, None for the others
JobPostingUpdateInput(title, status) == [title |-> title, status |-> status]

\* update_data of update_job_posting (lines 196-212) and of update_applicant
\* (applicants/services.py lines 193-199): the fields that are not None
UpdateData(input) == {f \in DOMAIN input : input[f] # None}

\* .update(update_data).eq('id', id) on a table
UpdateRows(table, id, input) ==
    {IF r.id = id
     THEN [f \in DOMAIN r |-> IF f \in UpdateData(input) THEN input[f] ELSE r[f]]
     ELSE r : r \in table}

\* .delete().eq('id', id) on a table
DeleteRows(table, id) == {r \in table : r.id # id}

\* an uploaded file: its name, size and declared content type
File(name, size, content_type) ==
    [name |-> name, size |-> size, content_type |-> content_type]

UploadedFiles ==
    {None,
     File(<<"c", "v", ".", "p", "d", "f">>, 2048, "application/pdf"),
     File(<<"c", "v", ".", "T", "X", "T">>, 2048, "text/plain"),
     File(<<"c", "v", ".", "p", "d", "f">>, MAX_UPLOAD_SIZE, "application/pdf"),
     File(<<"c", "v", ".", "p", "d", "f">>, MAX_UPLOAD_SIZE + 1, "application/pdf"),
     File(<<"c", "v", ".", "p", "n", "g">>, 2048, "image/png")}

NameValues == {None, Str(<<SP>>), Str(<<SP, "A", "n", "n", SP>>)}
EmailValues == {Str(<<>>), Str(<<"a", "@", "x", ".", "i", "o">>)}
PhoneValues == {None, Str(<<"5", "5", "5">>)}

\* request.data.get(key, '').strip()
Field(x) == Strip(IF x = None THEN <<>> ELSE x.v)

\* uuid4 as text, and tempfile's name for the temporary file
UUID == <<"u", "u", "i", "d">>
TMP_NAME == <<"t", "m", "p", "x">>

unique_filename == UUID \o SplitExt(request.FILES.name)
TempPath == TMP_NAME \o SplitExt(request.FILES.name)
PublicUrl(filename) == Str(<<"h", "t", "t", "p", "s", ":", "/", "/">> \o filename)

\* replies of the model met by the views
ViewResumeReplies == {Dumps(FullResume), Dumps(Dict(<<>>)), <<>>}
ViewJobReplies == {Dumps(FullJobMatch), <<"n", "o">>}

\* an exception of the inline or the file operation as it leaves the file
\* operation called with path
LeaveFileOp(fn, path, e) ==
    IF ExtOf(path) = EXT_TXT THEN Handle(fn, Handle(InlineOpOf(fn), e))
    ELSE Handle(fn, e)

\* what the parser of each file operation makes of these replies
\* (ai_service.py lines 190 and 365)
ViewResumeResults == {ParseGeminiResponse(reply) : reply \in ViewResumeReplies}
ViewJobResults == {ParseJobMatchResponse(reply) : reply \in ViewJobReplies}

\* what a file operation called with path returns or raises, for a parsed
\* reply of the model or a failed generation
AnalysisOutcomes(fn, path, parsed) ==
    {IF r.kind = "raise" THEN LeaveFileOp(fn, path, r) ELSE r : r \in parsed}
    \cup {LeaveFileOp(fn, path, RaiseExc("UpstreamError", <<"generation failed">>))}

Response(status_code, error_code, message, data) ==
    [status |-> status_code, error_code |-> error_code, message |-> message,
     data |-> data]

FailurePrefixOfView(v) ==
    IF v = "ApplicantUploadView" THEN "Failed to process resume"
    ELSE "Failed to submit application"

ViewsInit ==
    /\ view \in Views
    /\ request \in
         IF view = "JobApplicationView"
         THEN [job_id : {JOB_ACTIVE, JOB_DRAFT, JOB_CLOSED, JOB_UNKNOWN},
               name : NameValues, email : EmailValues, phone : PhoneValues,
               FILES : UploadedFiles]
         ELSE [job_id : {<<>>}, name : {None}, email : {None}, phone : {None},
               FILES : UploadedFiles]
    /\ view_pc = IF view = "JobApplicationView" THEN "lookup_job" ELSE "validate_file"
    /\ job = None
    /\ temp_file_path = None
    /\ temp_files = {}
    /\ general_analysis = NoResult
    /\ job_analysis = NoResult
    /\ storage = {}
    /\ storage_url = None
    /\ input_data = NoResult
    /\ applicants = <<>>
    /\ raised = NoResult
    /\ response = NoResult
    /\ job_postings = JobPostings
    /\ NormIdle
    /\ OpsIdle
    /\ ConcurrentIdle
    /\ AuthIdle
    /\ ApiIdle
    /\ LoginIdle

\* a response returned before the temporary file is made
Respond(r) ==
    /\ response' = r
    /\ view_pc' = "done"

\* an exception inside the inner try block: the finally clause runs next
RaiseInView(e) ==
    /\ raised' = e
    /\ view_pc' = "cleanup"

\* views.py lines 138-143
lookup_job ==
    /\ view_pc = "lookup_job"
    /\ job' = get_public_job_by_id(request.job_id)
    /\ IF job' = None
       THEN Respond(Response(HTTP_404_NOT_FOUND, "NOT_FOUND",
                <<"Job posting not found or not accepting applications">>, None))
       ELSE /\ view_pc' = "validate_fields"
            /\ UNCHANGED response
    /\ UNCHANGED <<view, request, temp_file_path, temp_files, general_analysis,
                   job_analysis, storage, storage_url, input_data, applicants,
                   raised, outside_views>>

\* views.py lines 146-172
validate_fields ==
    /\ view_pc = "validate_fields"
    /\ IF Field(request.name) = <<>>
       THEN Respond(Response(HTTP_400_BAD_REQUEST, "VALIDATION_ERROR",
                <<"Name is required">>, None))
       ELSE IF Field(request.email) = <<>>
       THEN Respond(Response(HTTP_400_BAD_REQUEST, "VALIDATION_ERROR",
                <<"Email is required">>, None))
       ELSE IF Field(request.phone) = <<>>
       THEN Respond(Response(HTTP_400_BAD_REQUEST, "VALIDATION_ERROR",
                <<"Phone is required">>, None))
       ELSE /\ view_pc' = "validate_file"
            /\ UNCHANGED response
    /\ UNCHANGED <<view, request, job, temp_file_path, temp_files,
                   general_analysis, job_analysis, storage, storage_url,
                   input_data, applicants, raised, outside_views>>

validate_file_presence_only ==
    /\ view_pc = "validate_file"
    /\ IF request.FILES = None
       THEN Respond(Response(HTTP_400_BAD_REQUEST, "NO_FILE",
                <<"No file uploaded">>, None))
       ELSE /\ view_pc' = "save_temp_file"
            /\ UNCHANGED response
    /\ UNCHANGED <<view, request, job, temp_file_path, temp_files,
                   general_analysis, job_analysis, storage, storage_url,
                   input_data, applicants, raised, outside_views>>

\* views.py lines 41-67 and 175-201
validate_file ==
    /\ view_pc = "validate_file"
    /\ IF request.FILES = None
       THEN Respond(Response(HTTP_400_BAD_REQUEST, "NO_FILE",
                <<IF view = "ApplicantUploadView" THEN "No file uploaded"
                  ELSE "Resume file is required">>, None))
       ELSE IF request.FILES.size > MAX_UPLOAD_SIZE
       THEN Respond(Response(HTTP_400_BAD_REQUEST, "FILE_TOO_LARGE",
                <<"File too large. Maximum size is 10MB">>, None))
       ELSE IF request.FILES.content_type \notin ALLOWED_UPLOAD_TYPES
       THEN Respond(Response(HTTP_400_BAD_REQUEST, "INVALID_FILE_TYPE",
                <<"Invalid file type. Only PDF, DOC, DOCX, and TXT files are allowed.">>,
                None))
       ELSE /\ view_pc' = "save_temp_file"
            /\ UNCHANGED response
    /\ UNCHANGED <<view, request, job, temp_file_path, temp_files,
                   general_analysis, job_analysis, storage, storage_url,
                   input_data, applicants, raised, outside_views>>

\* views.py lines 70-80 and 204-214: NamedTemporaryFile(delete=False) and
\* the copy of the chunks; temp_file_path is assigned after the copy
save_temp_file ==
    /\ view_pc = "save_temp_file"
    /\ \/ /\ temp_files' = temp_files \cup {TempPath}
          /\ temp_file_path' = Str(TempPath)
          /\ view_pc' = "analyze_general"
          /\ UNCHANGED raised
       \/ /\ RaiseInView(RaiseExc("OSError", <<"cannot create temporary file">>))
          /\ UNCHANGED <<temp_files, temp_file_path>>
       \/ /\ temp_files' = temp_files \cup {TempPath}
          /\ RaiseInView(RaiseExc("OSError", <<"No space left on device">>))
          /\ UNCHANGED temp_file_path
    /\ UNCHANGED <<view, request, job, general_analysis, job_analysis, storage,
                   storage_url, input_data, applicants, response, outside_views>>

\* views.py lines 83 and 217: analyze_resume_from_file(temp_file_path)
analyze_general ==
    /\ view_pc = "analyze_general"
    /\ \E r \in AnalysisOutcomes("analyze_resume_from_file", temp_file_path.v,
                                 ViewResumeResults) :
          IF r.kind = "raise"
          THEN /\ RaiseInView(r)
               /\ UNCHANGED general_analysis
          ELSE /\ general_analysis' = r
               /\ view_pc' = IF view = "JobApplicationView" THEN "analyze_for_job"
                             ELSE "upload_to_storage"
               /\ UNCHANGED raised
    /\ UNCHANGED <<view, request, job, temp_file_path, temp_files, job_analysis,
                   storage, storage_url, input_data, applicants, response,
                   outside_views>>

\* views.py lines 220-225: analyze_resume_file_for_job(temp_file_path, ...)
analyze_for_job ==
    /\ view_pc = "analyze_for_job"
    /\ \E r \in AnalysisOutcomes("analyze_resume_file_for_job", temp_file_path.v,
                                 ViewJobResults) :
          IF r.kind = "raise"
          THEN /\ RaiseInView(r)
               /\ UNCHANGED job_analysis
          ELSE /\ job_analysis' = r
               /\ view_pc' = "upload_to_storage"
               /\ UNCHANGED raised
    /\ UNCHANGED <<view, request, job, temp_file_path, temp_files,
                   general_analysis, storage, storage_url, input_data,
                   applicants, response, outside_views>>

\* views.py lines 86-87 and 228-229, core/supabase.py upload_file_to_storage
upload_to_storage ==
    /\ view_pc = "upload_to_storage"
    /\ \/ /\ storage' = storage \cup {unique_filename}
          /\ storage_url' = PublicUrl(unique_filename)
          /\ view_pc' = "build_input"
          /\ UNCHANGED raised
       \/ /\ RaiseInView(RaiseExc("Exception", <<"Failed to upload file", "storage error">>))
          /\ UNCHANGED <<storage, storage_url>>
    /\ UNCHANGED <<view, request, job, temp_file_path, temp_files,
                   general_analysis, job_analysis, input_data, applicants,
                   response, outside_views>>

\* the keyword arguments of ApplicantCreateInput(...) in
\* ApplicantUploadView.post (lines 90-102)
UploadKwargs ==
    LET a == general_analysis.value
    IN  <<Kw("name", a.name), Kw("email", a.email), Kw("phone", a.phone),
          Kw("resume_file_path", storage_url),
          Kw("priority_score", a.priority_score), Kw("summary", a.summary),
          Kw("key_skills", a.key_skills), Kw("experience", a.experience),
          Kw("education", a.education), Kw("highlights", a.highlights),
          Kw("concerns", a.concerns)>>

\* the keyword arguments of ApplicantCreateInput(...) in
\* JobApplicationView.post (lines 232-251)
JobApplicationKwargs ==
    LET a == general_analysis.value
        m == job_analysis.value
    IN  <<Kw("name", Str(Field(request.name))), Kw("email", Str(Field(request.email))),
          Kw("phone", Str(Field(request.phone))),
          Kw("resume_file_path", storage_url),
          Kw("priority_score", a.priority_score), Kw("summary", a.summary),
          Kw("key_skills", a.key_skills), Kw("experience", a.experience),
          Kw("education", a.education), Kw("highlights", a.highlights),
          Kw("concerns", a.concerns),
          Kw("job_posting_id", Str(request.job_id)),
          Kw("job_relevancy_score", m.job_relevancy_score),
          Kw("job_match_summary", m.job_match_summary),
          Kw("skill_matches", m.skill_matches), Kw("skill_gaps", m.skill_gaps)>>

\* views.py lines 90-102 and 232-251
build_input ==
    /\ view_pc = "build_input"
    /\ LET r == ApplicantCreateInput(IF view = "JobApplicationView"
                                     THEN JobApplicationKwargs ELSE UploadKwargs)
       IN  IF r.kind = "raise"
           THEN /\ RaiseInView(r)
                /\ UNCHANGED input_data
           ELSE /\ input_data' = r
                /\ view_pc' = "create_applicant"
                /\ UNCHANGED raised
    /\ UNCHANGED <<view, request, job, temp_file_path, temp_files,
                   general_analysis, job_analysis, storage, storage_url,
                   applicants, response, outside_views>>

\* services.create_applicant (services.py lines 62-107), called at views.py
\* lines 104 and 253
create_applicant ==
    /\ view_pc = "create_applicant"
    /\ LET r == InsertRow(input_data.value)
       IN  IF r.kind = "raise"
           THEN /\ RaiseInView(r)
                /\ UNCHANGED applicants
           ELSE \/ /\ applicants' = Append(applicants, r.value)
                   /\ view_pc' = "cleanup"
                   /\ UNCHANGED raised
                \/ /\ RaiseInView(RaiseExc("Exception", <<"Failed to create applicant">>))
                   /\ UNCHANGED applicants
    /\ UNCHANGED <<view, request, job, temp_file_path, temp_files,
                   general_analysis, job_analysis, storage, storage_url,
                   input_data, response, outside_views>>

\* the finally clause (views.py lines 113-116 and 265-268)
cleanup ==
    /\ view_pc = "cleanup"
    /\ temp_files' = IF temp_file_path # None /\ temp_file_path.v \in temp_files
                     THEN temp_files \ {temp_file_path.v}
                     ELSE temp_files
    /\ view_pc' = "respond"
    /\ UNCHANGED <<view, request, job, temp_file_path, general_analysis,
                   job_analysis, storage, storage_url, input_data, applicants,
                   raised, response, outside_views>>

\* the return of the try block (views.py lines 106-111 and 255-263) or the
\* outer except clause (lines 118-123 and 270-275)
respond ==
    /\ view_pc = "respond"
    /\ response' =
         IF raised # NoResult
         THEN Response(HTTP_500_INTERNAL_SERVER_ERROR, "INTERNAL_ERROR",
                       <<FailurePrefixOfView(view)>> \o raised.msg, None)
         ELSE LET applicant == ParseApplicant(applicants[Len(applicants)])
              IN  IF view = "ApplicantUploadView"
                  THEN Response(HTTP_201_CREATED, "",
                           <<"Resume uploaded and analyzed successfully">>, applicant)
                  ELSE Response(HTTP_201_CREATED, "",
                           <<"Application submitted successfully">>,
                           [applicationId |-> applicant.id])
    /\ view_pc' = "done"
    /\ UNCHANGED <<view, request, job, temp_file_path, temp_files,
                   general_analysis, job_analysis, storage, storage_url,
                   input_data, applicants, raised, outside_views>>

\* the recruiter who owns the posting applied to closes it while the
\* application is handled: the write of update_job_posting
\* (jobs/services.py lines 217-220) with status 'closed'
close_job ==
    /\ view = "JobApplicationView"
    /\ view_pc # "done"
    /\ \E j \in RowsWithId(job_postings, request.job_id) :
          /\ j.status = STATUS_ACTIVE
          /\ job_postings' = UpdateRows(job_postings, j.id,
                                        JobPostingUpdateInput(None, STATUS_CLOSED))
    /\ UNCHANGED <<wvars, nvars, ovars, cvars, avars, mvars, lvars>>

ViewsNext ==
    \/ close_job
    \/ lookup_job
    \/ validate_fields
    \/ validate_file
    \/ save_temp_file
    \/ analyze_general
    \/ analyze_for_job
    \/ upload_to_storage
    \/ build_input
    \/ create_applicant
    \/ cleanup
    \/ respond

SpecViews == ViewsInit /\ [][ViewsNext]_vars

\* ------------------------------------------------------------------------
\* Two analysis requests served at the same time.  The module-level state
\* of ai_service.py is what genai.configure keeps for the process (line
\* 43); everything else is local to a call.
\* ------------------------------------------------------------------------

Requests == {1, 2}

ConcurrentTexts == {Str(<<"c", "v", "A">>), Str(<<"c", "v", "B">>)}

ConcurrentReplies == {Dumps(FullResume), Dumps(Dict(<<>>)), <<>>}

ConcurrentInit ==
    /\ GEMINI_API_KEY \in {"", "key"}
    /\ genai_config = NoResult
    /\ requests \in [Requests -> [op : TextOps, resume_text : ConcurrentTexts]]
    /\ request_pc = [p \in Requests |-> "configure"]
    /\ config_read = [p \in Requests |-> NoResult]
    /\ response_texts = [p \in Requests |-> None]
    /\ outcomes = [p \in Requests |-> NoResult]
    /\ NormIdle
    /\ OpsIdle
    /\ ViewsIdle
    /\ AuthIdle
    /\ ManageIdle
    /\ LoginIdle

ReplyShared(p) ==
    LET got == {q \in Requests : response_texts[q] # None}
    IN  response_texts[CHOOSE q \in got : \A r \in got : q <= r].v

\* text = response.text or '' (lines 130, 299): the reply of this call
ReplyFor(p) == response_texts[p].v

\* _configure_genai (lines 38-43) called by request p
request_configure(p) ==
    /\ request_pc[p] = "configure"
    /\ IF GEMINI_API_KEY = ""
       THEN /\ outcomes' = [outcomes EXCEPT ![p] =
                   Handle(requests[p].op,
                          RaiseExc("ValueError", <<"GEMINI_API_KEY is not configured">>))]
            /\ request_pc' = [request_pc EXCEPT ![p] = "done"]
            /\ UNCHANGED genai_config
       ELSE /\ genai_config' = [kind |-> "configured", api_key |-> GEMINI_API_KEY,
                                writer |-> p]
            /\ request_pc' = [request_pc EXCEPT ![p] = "generate"]
            /\ UNCHANGED outcomes
    /\ UNCHANGED <<GEMINI_API_KEY, requests, config_read, response_texts,
                   outside_concurrent>>

\* genai.GenerativeModel(...).generate_content(...) (lines 127-130,
\* 296-299) called by request p: the call uses the configuration of the
\* process
request_generate(p) ==
    /\ request_pc[p] = "generate"
    /\ config_read' = [config_read EXCEPT ![p] = genai_config]
    /\ \/ \E reply \in ConcurrentReplies :
            /\ response_texts' = [response_texts EXCEPT ![p] = Str(reply)]
            /\ request_pc' = [request_pc EXCEPT ![p] = "parse"]
            /\ UNCHANGED outcomes
       \/ /\ outcomes' = [outcomes EXCEPT ![p] =
                 Handle(requests[p].op,
                        RaiseExc("UpstreamError", <<"generation failed">>))]
          /\ request_pc' = [request_pc EXCEPT ![p] = "done"]
          /\ UNCHANGED response_texts
    /\ UNCHANGED <<GEMINI_API_KEY, genai_config, requests, outside_concurrent>>

\* return _parse_..._response(text) and the except clauses (lines 131-135,
\* 300-304) of request p
request_parse(p) ==
    /\ request_pc[p] = "parse"
    /\ LET r == ParseFor(requests[p].op, ReplyFor(p))
       IN  outcomes' = [outcomes EXCEPT ![p] =
               IF r.kind = "raise" THEN Handle(requests[p].op, r) ELSE r]
    /\ request_pc' = [request_pc EXCEPT ![p] = "done"]
    /\ UNCHANGED <<GEMINI_API_KEY, genai_config, requests, config_read,
                   response_texts, outside_concurrent>>

ConcurrentNext ==
    \E p \in Requests :
        \/ request_configure(p)
        \/ request_generate(p)
        \/ request_parse(p)

SpecConcurrent == ConcurrentInit /\ [][ConcurrentNext]_vars

\* ------------------------------------------------------------------------
\* Authentication of a request to a protected view: the middleware
\* (auth/middleware.py), verify_token and get_recruiter_by_id
\* (auth/services.py) and the decorator require_auth (auth/decorators.py)
\* ------------------------------------------------------------------------

HTTP_200_OK == 200
HTTP_401_UNAUTHORIZED == 401

JWT_SECRET == "server-secret"
BEARER == <<"B", "e", "a", "r", "e", "r", SP>>

\* a token as text and what it is: whether it is a JWT at all, the key that
\* signed it and its payload
Token(chars, is_jwt, key, rid, exp) ==
    [text |-> chars, is_jwt |-> is_jwt, key |-> key,
     payload |-> [recruiter_id |-> rid, exp |-> exp]]

TOKEN_EXP == 10
TOKEN_EXP_EARLY == 5

Tokens ==
    {Token(<<"t", "o", "k", "1">>, TRUE, JWT_SECRET, R1, TOKEN_EXP),
     Token(<<"t", "o", "k", "2">>, TRUE, JWT_SECRET, R1, TOKEN_EXP_EARLY),
     Token(<<"f", "o", "r", "g">>, TRUE, "other-secret", R1, TOKEN_EXP),
     Token(<<"a", "n", "o", "n">>, TRUE, JWT_SECRET, None, TOKEN_EXP),
     Token(<<"t", "o", "k", "9">>, TRUE, JWT_SECRET, R9, TOKEN_EXP),
     Token(<<"j", "u", "n", "k">>, FALSE, "", None, 0)}

TOK1 == <<"t", "o", "k", "1">>

\* values of the Authorization header; the empty text is the absent header
AuthHeaders ==
    {BEARER \o t.text : t \in Tokens}
    \cup {<<>>, BEARER, TOK1,
          <<"b", "e", "a", "r", "e", "r", SP>> \o TOK1,
          <<"B", "e", "a", "r", "e", "r">> \o TOK1,
          <<"T", "o", "k", "e", "n", SP>> \o TOK1,
          BEARER \o <<SP>> \o TOK1}

\* the clock, in the unit of exp
Times == {4, 5}

\* the recruiters table: the row of r1, or no row once it is deleted
RecruiterTables ==
    {<<>>} \cup {<<[id |-> R1, is_active |-> a]>> : a \in {Bool(TRUE), Bool(FALSE), None}}

jwt_decode_no_exp(token, secret, t) ==
    LET known == {k \in Tokens : k.text = token /\ k.is_jwt /\ k.key = secret}
    IN  IF known = {} THEN None
        ELSE (CHOOSE k \in known : TRUE).payload

\* jwt.decode(token, JWT_SECRET, algorithms=['HS256']) inside verify_token
\* (services.py lines 58-64): the payload, or None for a text that is no
\* JWT, a signature made with another key, or exp <= now
jwt_decode(token, secret, t) ==
    LET known == {k \in Tokens : k.text = token /\ k.is_jwt /\ k.key = secret}
    IN  IF known = {} THEN None
        ELSE LET k == CHOOSE k \in known : TRUE
             IN  IF k.payload.exp <= t THEN None ELSE k.payload

verify_token(token) == jwt_decode(token, JWT_SECRET, now)

\* _parse_recruiter (services.py lines 67-80), the fields read later
ParseRecruiter(row) == [id |-> row.id, isActive |-> row.is_active]

\* get_recruiter_by_id (services.py lines 106-126)
get_recruiter_by_id(rid) ==
    LET found == {i \in 1..Len(recruiters) : recruiters[i].id = rid}
    IN  IF found = {} THEN None
        ELSE ParseRecruiter(recruiters[CHOOSE i \in found : TRUE])

AuthInit ==
    /\ auth_header \in AuthHeaders
    /\ now \in Times
    /\ recruiters \in RecruiterTables
    /\ recruiter = None
    /\ recruiter_id = None
    /\ auth_pc = "middleware"
    /\ view_calls = 0
    /\ auth_response = NoResult
    /\ NormIdle
    /\ OpsIdle
    /\ ViewsIdle
    /\ ConcurrentIdle
    /\ ManageIdle
    /\ LoginIdle

\* what process_request sets as request.recruiter and request.recruiter_id
Authenticate(header) ==
    LET anonymous == [recruiter |-> None, recruiter_id |-> None]
    IN  IF ~StartsWith(header, BEARER) THEN anonymous
        ELSE
        LET token == SliceFrom(header, 7)
        IN  IF token = <<>> THEN anonymous
            ELSE
            LET payload == verify_token(token)
            IN  IF payload = None THEN anonymous
                ELSE IF Falsy(payload.recruiter_id) THEN anonymous
                ELSE
                LET r == get_recruiter_by_id(payload.recruiter_id)
                IN  IF r # None /\ ~Falsy(r.isActive)
                    THEN [recruiter |-> r, recruiter_id |-> payload.recruiter_id]
                    ELSE anonymous

\* JWTAuthenticationMiddleware.process_request (middleware.py lines 27-56)
process_request ==
    /\ auth_pc = "middleware"
    /\ recruiter' = Authenticate(auth_header).recruiter
    /\ recruiter_id' = Authenticate(auth_header).recruiter_id
    /\ auth_pc' = "decorator"
    /\ UNCHANGED <<auth_header, now, recruiters, view_calls, auth_response,
                   outside_auth>>

\* the wrapper of require_auth (decorators.py lines 21-30)
require_auth ==
    /\ auth_pc = "decorator"
    /\ IF recruiter = None
       THEN /\ auth_response' = Response(HTTP_401_UNAUTHORIZED, "UNAUTHORIZED",
                                         <<"Authentication required">>, None)
            /\ auth_pc' = "done"
       ELSE /\ auth_pc' = "view"
            /\ UNCHANGED auth_response
    /\ UNCHANGED <<auth_header, now, recruiters, recruiter, recruiter_id,
                   view_calls, outside_auth>>

\* view_func(self, request, ...) (decorators.py line 29): the body of the
\* protected view
view_func ==
    /\ auth_pc = "view"
    /\ view_calls' = view_calls + 1
    /\ auth_response' = Response(HTTP_200_OK, "", <<"ok">>, recruiter_id)
    /\ auth_pc' = "done"
    /\ UNCHANGED <<auth_header, now, recruiters, recruiter, recruiter_id,
                   outside_auth>>

AuthNext ==
    \/ process_request
    \/ require_auth
    \/ view_func

SpecAuth == AuthInit /\ [][AuthNext]_vars

\* ------------------------------------------------------------------------
\* The endpoints of recruiters over job postings and applicants:
\* JobDetailView.patch / delete (jobs/views.py) with update_job_posting and
\* delete_job_posting (jobs/services.py), and JobApplicantsView,
\* ApplicantListView, ApplicantDetailView, ApplicantResumeDownloadView
\* (applicants/views.py) with the services they call.  Two requests are
\* served at the same time; each database call of a handler is a step.
\* require_auth has let both requests pass: request 1 comes from recruiter
\* r1, request 2 from recruiter r2.
\* ------------------------------------------------------------------------

HTTP_302_FOUND == 302
HTTP_403_FORBIDDEN == 403

ApiRequests == {1, 2}

RecruiterOf(p) == IF p = 1 THEN R1 ELSE R2

A1 == APPLICANT_ID
A2 == Str(<<"a", "2">>)
A9 == Str(<<"a", "9">>)

FILE_1 == <<"f", "1", ".", "p", "d", "f">>
FILE_2 == <<"f", "2", ".", "p", "d", "f">>

STATUS_HIRED == Str(<<"h", "i", "r", "e", "d">>)

\* a row of the applicants table, with the columns create_applicant writes
\* (applicants/services.py lines 78-96) that the endpoints read, and notes
ApplicantRow(id, name, job_id, filename) ==
    [id |-> id, name |-> Str(name), resume_file_path |-> PublicUrl(filename),
     priority_score |-> Num(SCORE_DEFAULT), status |-> STATUS_NEW,
     notes |-> None, job_posting_id |-> Str(job_id)]

\* the applicants table when the requests arrive: one applicant of the
\* posting of r1 and one of the posting of r2, each with its stored resume
Applicants ==
    <<ApplicantRow(A1, <<"A", "n", "n">>, JOB_ACTIVE, FILE_1),
      ApplicantRow(A2, <<"B", "o", "b">>, JOB_DRAFT, FILE_2)>>

\* what a request carries besides its path: the fields of the update
\* serializers, None when not sent
NoData == [title |-> None, status |-> None, notes |-> None, priority_score |-> None]

ApiCall(endpoint, job_id, applicant_id, data) ==
    [endpoint |-> endpoint, job_id |-> job_id, applicant_id |-> applicant_id,
     data |-> data]

JobIds == {JOB_ACTIVE, JOB_DRAFT, JOB_UNKNOWN}
ApplicantIds == {A1, A2, A9}

ApiCalls ==
    {ApiCall("ApplicantListView.get", <<>>, None, NoData)}
    \cup {ApiCall(e, j, None, NoData) :
            e \in {"JobApplicantsView.get", "JobDetailView.delete"}, j \in JobIds}
    \cup {ApiCall("JobDetailView.patch", j, None, d) :
            j \in JobIds,
            d \in {NoData, [NoData EXCEPT !.status = STATUS_CLOSED]}}
    \cup {ApiCall(e, <<>>, a, NoData) :
            e \in {"ApplicantDetailView.get", "ApplicantDetailView.delete",
                   "ApplicantResumeDownloadView.get"},
            a \in ApplicantIds}
    \cup {ApiCall("ApplicantDetailView.patch", <<>>, a, d) :
            a \in ApplicantIds,
            d \in {NoData, [NoData EXCEPT !.status = STATUS_HIRED]}}

\* ApplicantUpdateInput (applicants/models.py lines 81-86) as the handler
\* builds it (views.py lines 456-460)
ApplicantUpdateInput(data) ==
    [status |-> data.status, notes |-> data.notes,
     priority_score |-> data.priority_score]

\* the posting joined to an applicant by select('*, job_postings(*)'), as
\* _parse_applicant returns it (applicants/services.py lines 18-31)
JoinedJobPosting(row) ==
    LET jid == RowGet(row, "job_posting_id", None)
        found == IF jid = None THEN {} ELSE RowsWithId(job_postings, jid.v)
    IN  IF found = {} THEN None
        ELSE LET jp == CHOOSE j \in found : TRUE
             IN  [id |-> jp.id, title |-> jp.title, description |-> jp.description,
                  requirements |-> jp.requirements, status |-> jp.status]

\* _parse_applicant of a row selected with its posting
ParseJoinedApplicant(row) ==
    [f \in DOMAIN ParseApplicant(row) \cup {"jobPosting"} |->
        IF f = "jobPosting" THEN JoinedJobPosting(row) ELSE ParseApplicant(row)[f]]

\* .eq('id', applicant_id) on rows of the applicants table: the first row
\* with this id as _parse_applicant returns it, or None
ApplicantById(rows, applicant_id) ==
    LET found == {i \in 1..Len(rows) : RowGet(rows[i], "id", None) = applicant_id}
    IN  IF found = {} THEN None
        ELSE ParseJoinedApplicant(rows[CHOOSE i \in found : \A j \in found : i <= j])

\* the positions of the rows of the applicants table with this id
ApplicantsWithId(applicant_id) ==
    {i \in 1..Len(applicants) : RowGet(applicants[i], "id", None) = applicant_id}

\* get_applicant_by_id (applicants/services.py lines 153-173)
get_applicant_by_id(applicant_id) == ApplicantById(applicants, applicant_id)

ParseAll(rows) == [i \in 1..Len(rows) |-> ParseJoinedApplicant(rows[i])]

\* get_all_applicants without a status filter (lines 139-150): every row of
\* the table
get_all_applicants == ParseAll(applicants)

\* get_applicants_by_job (lines 309-320): .eq('job_posting_id', job_id)
get_applicants_by_job(job_id) ==
    LET OfJob(row) == RowGet(row, "job_posting_id", None) = Str(job_id)
    IN  ParseAll(SelectSeq(applicants, OfJob))

\* .update(update_data).eq('id', applicant_id) on the applicants table
\* (lines 205-208)
UpdateApplicantRows(applicant_id, input) ==
    [i \in 1..Len(applicants) |->
        IF RowGet(applicants[i], "id", None) = applicant_id
        THEN [c \in DOMAIN applicants[i] \cup UpdateData(input) |->
                IF c \in UpdateData(input) THEN input[c] ELSE applicants[i][c]]
        ELSE applicants[i]]

\* .delete().eq('id', applicant_id) on the applicants table (delete_applicant,
\* lines 232-235)
DeleteApplicantRows(applicant_id) ==
    LET Other(row) == RowGet(row, "id", None) # applicant_id
    IN  SelectSeq(applicants, Other)

\* the rows the database removes with a posting (jobs/services.py line 251:
\* "cascade will delete applicants")
CascadeDelete(job_id) ==
    LET OfOtherJob(row) == RowGet(row, "job_posting_id", None) # Str(job_id)
    IN  SelectSeq(applicants, OfOtherJob)

\* storage_url.split('/')[-1] (views.py line 545)
LastSegment(url) == SliceFrom(url, LastIndexOf(url, "/"))

\* os.path.exists(file_path) (views.py line 496): a file of the local disk
OsPathExists(path) == path \in temp_files

VerifyOwnershipExistenceOnly(found, caller, verb) ==
    IF found = None
    THEN RaiseExc("ValueError", <<"Job posting not found">>)
    ELSE NoResult

\* the ownership check of update_job_posting (lines 189-193) and of
\* delete_job_posting (lines 245-249)
VerifyOwnership(found, caller, verb) ==
    IF found = None
    THEN RaiseExc("ValueError", <<"Job posting not found">>)
    ELSE IF found.recruiterId # caller
    THEN RaiseExc("ValueError", <<"Not authorized to", verb, "this job posting">>)
    ELSE NoResult

ManageInit ==
    /\ job_postings = JobPostings
    /\ applicants = Applicants
    /\ storage = {FILE_1, FILE_2}
    /\ temp_files = {}
    /\ api_requests \in [ApiRequests -> ApiCalls]
    /\ api_pc = [p \in ApiRequests |-> "start"]
    /\ existing = [p \in ApiRequests |-> None]
    /\ api_responses = [p \in ApiRequests |-> NoResult]
    /\ view = "none" /\ request = NoResult /\ view_pc = "idle" /\ job = None
    /\ temp_file_path = None /\ general_analysis = NoResult
    /\ job_analysis = NoResult /\ storage_url = None /\ input_data = NoResult
    /\ raised = NoResult /\ response = NoResult
    /\ NormIdle
    /\ OpsIdle
    /\ ConcurrentIdle
    /\ AuthIdle
    /\ LoginIdle

\* request p is at this position of this endpoint
At(p, endpoint, position) ==
    api_requests[p].endpoint = endpoint /\ api_pc[p] = position

\* the handler of request p returns a response
Reply(p, r) ==
    /\ api_responses' = [api_responses EXCEPT ![p] = r]
    /\ api_pc' = [api_pc EXCEPT ![p] = "done"]

\* the handler of request p goes on to its next database call
Proceed(p) ==
    /\ api_pc' = [api_pc EXCEPT ![p] = "act"]
    /\ UNCHANGED api_responses

NotFound(message) == Response(HTTP_404_NOT_FOUND, "NOT_FOUND", <<message>>, None)

ServerError(message) ==
    Response(HTTP_500_INTERNAL_SERVER_ERROR, "INTERNAL_ERROR", <<message>>, None)

Success(message, data) == Response(HTTP_200_OK, "", <<message>>, data)

\* JobApplicantsView.get, views.py lines 290-303
job_applicants_verify(p) ==
    /\ At(p, "JobApplicantsView.get", "start")
    /\ LET found == get_job_by_id(api_requests[p].job_id)
       IN  /\ existing' = [existing EXCEPT ![p] = found]
           /\ IF found = None
              THEN Reply(p, NotFound("Job posting not found"))
              ELSE IF found.recruiterId # RecruiterOf(p)
              THEN Reply(p, Response(HTTP_403_FORBIDDEN, "FORBIDDEN",
                        <<"Not authorized to view applicants for this job">>, None))
              ELSE Proceed(p)
    /\ UNCHANGED <<job_postings, applicants, storage, temp_files, api_requests,
                   outside_manage>>

\* JobApplicantsView.get, views.py lines 305-326
job_applicants_read(p) ==
    /\ At(p, "JobApplicantsView.get", "act")
    /\ Reply(p, Success("Applicants retrieved successfully",
                        [applicants |-> get_applicants_by_job(api_requests[p].job_id),
                         job |-> existing[p]]))
    /\ UNCHANGED <<job_postings, applicants, storage, temp_files, api_requests,
                   existing, outside_manage>>

\* ApplicantListView.get, views.py lines 346-357
applicant_list(p) ==
    /\ At(p, "ApplicantListView.get", "start")
    /\ Reply(p, Success("Applicants retrieved successfully",
                        [applicants |-> get_all_applicants]))
    /\ UNCHANGED <<job_postings, applicants, storage, temp_files, api_requests,
                   existing, outside_manage>>

\* ApplicantDetailView.get, views.py lines 404-417
applicant_get(p) ==
    /\ At(p, "ApplicantDetailView.get", "start")
    /\ LET found == get_applicant_by_id(api_requests[p].applicant_id)
       IN  /\ existing' = [existing EXCEPT ![p] = found]
           /\ IF found = None
              THEN Reply(p, NotFound("Applicant not found"))
              ELSE Reply(p, Success("Applicant retrieved successfully",
                                    [applicant |-> found]))
    /\ UNCHANGED <<job_postings, applicants, storage, temp_files, api_requests,
                   outside_manage>>

\* ApplicantDetailView.patch, views.py lines 447-453
applicant_patch_check(p) ==
    /\ At(p, "ApplicantDetailView.patch", "start")
    /\ LET found == get_applicant_by_id(api_requests[p].applicant_id)
       IN  /\ existing' = [existing EXCEPT ![p] = found]
           /\ IF found = None
              THEN Reply(p, NotFound("Applicant not found"))
              ELSE Proceed(p)
    /\ UNCHANGED <<job_postings, applicants, storage, temp_files, api_requests,
                   outside_manage>>

\* ApplicantDetailView.patch, views.py lines 456-475, with update_applicant
\* (applicants/services.py lines 176-214): the update and the fresh read
\* that follows it
applicant_patch_update(p) ==
    /\ At(p, "ApplicantDetailView.patch", "act")
    /\ LET id == api_requests[p].applicant_id
           input == ApplicantUpdateInput(api_requests[p].data)
       IN  IF UpdateData(input) = {}
           THEN /\ Reply(p, Success("Applicant updated successfully",
                                    [applicant |-> get_applicant_by_id(id)]))
                /\ UNCHANGED applicants
           ELSE IF ApplicantsWithId(id) = {}
           THEN /\ Reply(p, ServerError("Failed to update applicant"))
                /\ UNCHANGED applicants
           ELSE /\ applicants' = UpdateApplicantRows(id, input)
                /\ Reply(p, Success("Applicant updated successfully",
                       [applicant |->
                          ApplicantById(UpdateApplicantRows(id, input), id)]))
    /\ UNCHANGED <<job_postings, storage, temp_files, api_requests, existing,
                   outside_manage>>

\* ApplicantDetailView.delete, views.py lines 484-492
applicant_delete_check(p) ==
    /\ At(p, "ApplicantDetailView.delete", "start")
    /\ LET found == get_applicant_by_id(api_requests[p].applicant_id)
       IN  /\ existing' = [existing EXCEPT ![p] = found]
           /\ IF found = None
              THEN Reply(p, NotFound("Applicant not found"))
              ELSE Proceed(p)
    /\ UNCHANGED <<job_postings, applicants, storage, temp_files, api_requests,
                   outside_manage>>

\* ApplicantDetailView.delete, views.py lines 494-506, with delete_applicant
\* (applicants/services.py lines 217-237): the file is looked for on the
\* local disk under the stored URL, then the row is deleted
applicant_delete_remove(p) ==
    /\ At(p, "ApplicantDetailView.delete", "act")
    /\ LET resume_file_path == existing[p].resumeFilePath
       IN  temp_files' =
             IF ~Falsy(resume_file_path) /\ OsPathExists(resume_file_path.v)
             THEN temp_files \ {resume_file_path.v}
             ELSE temp_files
    /\ applicants' = DeleteApplicantRows(api_requests[p].applicant_id)
    /\ Reply(p, Success("Applicant deleted successfully", None))
    /\ UNCHANGED <<job_postings, storage, api_requests, existing, outside_manage>>

\* ApplicantResumeDownloadView.get, views.py lines 526-541
resume_download_check(p) ==
    /\ At(p, "ApplicantResumeDownloadView.get", "start")
    /\ LET found == get_applicant_by_id(api_requests[p].applicant_id)
       IN  /\ existing' = [existing EXCEPT ![p] = found]
           /\ IF found = None
              THEN Reply(p, NotFound("Applicant not found"))
              ELSE IF Falsy(found.resumeFilePath)
              THEN Reply(p, NotFound("Resume file not found"))
              ELSE Proceed(p)
    /\ UNCHANGED <<job_postings, applicants, storage, temp_files, api_requests,
                   outside_manage>>

\* ApplicantResumeDownloadView.get, views.py lines 543-559, with
\* get_file_download_url (core/supabase.py lines 104-117): a signed URL of
\* the stored file, or a failure of the storage service
resume_download_sign(p) ==
    /\ At(p, "ApplicantResumeDownloadView.get", "act")
    /\ LET filename == LastSegment(existing[p].resumeFilePath.v)
       IN  \/ /\ filename \in storage
              /\ Reply(p, Response(HTTP_302_FOUND, "", <<"redirect">>,
                                   [signedURL |-> filename]))
           \/ Reply(p, ServerError("Failed to generate download link"))
    /\ UNCHANGED <<job_postings, applicants, storage, temp_files, api_requests,
                   existing, outside_manage>>

\* JobDetailView.patch (jobs/views.py lines 154-200) up to the write of
\* update_job_posting (jobs/services.py lines 186-215)
update_job_posting_verify(p) ==
    /\ At(p, "JobDetailView.patch", "start")
    /\ LET found == get_job_by_id(api_requests[p].job_id)
           denied == VerifyOwnership(found, RecruiterOf(p), "update")
           input == JobPostingUpdateInput(api_requests[p].data.title,
                                          api_requests[p].data.status)
       IN  /\ existing' = [existing EXCEPT ![p] = found]
           /\ IF denied # NoResult
              THEN Reply(p, Response(HTTP_400_BAD_REQUEST, "UPDATE_ERROR",
                                     denied.msg, None))
              ELSE IF UpdateData(input) = {}
              THEN Reply(p, Success("Job posting updated successfully",
                                    [job |-> found]))
              ELSE Proceed(p)
    /\ UNCHANGED <<job_postings, applicants, storage, temp_files, api_requests,
                   outside_manage>>

\* the write of update_job_posting and the read that follows it
\* (jobs/services.py lines 217-225)
update_job_posting_write(p) ==
    /\ At(p, "JobDetailView.patch", "act")
    /\ LET id == api_requests[p].job_id
           input == JobPostingUpdateInput(api_requests[p].data.title,
                                          api_requests[p].data.status)
       IN  IF RowsWithId(job_postings, id) = {}
           THEN /\ Reply(p, ServerError("Failed to update job posting"))
                /\ UNCHANGED job_postings
           ELSE /\ job_postings' = UpdateRows(job_postings, id, input)
                /\ Reply(p, Success("Job posting updated successfully",
                       [job |-> ParseJobPosting(
                            CHOOSE j \in RowsWithId(UpdateRows(job_postings, id, input), id) :
                                TRUE)]))
    /\ UNCHANGED <<applicants, storage, temp_files, api_requests, existing,
                   outside_manage>>

\* JobDetailView.delete (jobs/views.py lines 209-230) up to the delete of
\* delete_job_posting (jobs/services.py lines 242-249)
delete_job_posting_verify(p) ==
    /\ At(p, "JobDetailView.delete", "start")
    /\ LET found == get_job_by_id(api_requests[p].job_id)
           denied == VerifyOwnership(found, RecruiterOf(p), "delete")
       IN  /\ existing' = [existing EXCEPT ![p] = found]
           /\ IF denied # NoResult
              THEN Reply(p, Response(HTTP_400_BAD_REQUEST, "DELETE_ERROR",
                                     denied.msg, None))
              ELSE Proceed(p)
    /\ UNCHANGED <<job_postings, applicants, storage, temp_files, api_requests,
                   outside_manage>>

\* the delete of delete_job_posting (jobs/services.py lines 251-257); the
\* database removes the applicants of the posting with it
delete_job_posting_write(p) ==
    /\ At(p, "JobDetailView.delete", "act")
    /\ job_postings' = DeleteRows(job_postings, api_requests[p].job_id)
    /\ applicants' = CascadeDelete(api_requests[p].job_id)
    /\ Reply(p, Success("Job posting deleted successfully", None))
    /\ UNCHANGED <<storage, temp_files, api_requests, existing, outside_manage>>

ManageNext ==
    \E p \in ApiRequests :
        \/ job_applicants_verify(p)
        \/ job_applicants_read(p)
        \/ applicant_list(p)
        \/ applicant_get(p)
        \/ applicant_patch_check(p)
        \/ applicant_patch_update(p)
        \/ applicant_delete_check(p)
        \/ applicant_delete_remove(p)
        \/ resume_download_check(p)
        \/ resume_download_sign(p)
        \/ update_job_posting_verify(p)
        \/ update_job_posting_write(p)
        \/ delete_job_posting_verify(p)
        \/ delete_job_posting_write(p)

SpecManage == ManageInit /\ [][ManageNext]_vars

\* ------------------------------------------------------------------------
\* Login: LoginView.post (auth/views.py) from its call of services.login,
\* with login, get_recruiter_by_email, _verify_password, _parse_recruiter
\* and _generate_token (auth/services.py).  The credentials are those of
\* RecruiterLoginInput; the clock is counted in hours.
\* ------------------------------------------------------------------------

JWT_EXPIRATION_HOURS == 24

EMAIL_1 == <<"a", "@", "x">>
EMAIL_2 == <<"b", "@", "x">>
EMAIL_9 == <<"z", "@", "x">>

PASSWORD_1 == <<"p", "w", "1">>
PASSWORD_2 == <<"p", "w", "2">>

\* bcrypt.hashpw(password, salt): the hash carries its salt
bcrypt_hashpw(password, salt) == [salt |-> salt, digest |-> password]

\* bcrypt.checkpw(password, hashed): the password hashed again with the
\* salt of the stored hash gives the stored hash
bcrypt_checkpw(password, hashed) == bcrypt_hashpw(password, hashed.salt) = hashed

\* _hash_password (services.py lines 25-28); salt is what gensalt drew
hash_password(password, salt) == bcrypt_hashpw(password, salt)

\* _verify_password (services.py lines 31-33)
verify_password(password, password_hash) == bcrypt_checkpw(password, password_hash)

\* a row of the recruiters table as signup inserts it (services.py lines
\* 155-161): the email lowercased and trimmed, the hash of the password;
\* is_active is what the database holds now
RecruiterRow(id, email, password, salt, is_active) ==
    [id |-> id, email |-> Str(Strip(Lower(email))),
     password_hash |-> hash_password(password, salt), is_active |-> is_active]

\* the recruiters table at login: empty, the account of r1, or the accounts
\* of r1 and r2; r1 active, deactivated, or with no value for is_active
LoginRecruiterTables ==
    {<<>>}
    \cup {<<RecruiterRow(R1, EMAIL_1, PASSWORD_1, "s1", a)>> :
            a \in {Bool(TRUE), Bool(FALSE), None}}
    \cup {<<RecruiterRow(R1, EMAIL_1, PASSWORD_1, "s1", a),
            RecruiterRow(R2, EMAIL_2, PASSWORD_2, "s2", Bool(TRUE))>> :
            a \in {Bool(TRUE), Bool(FALSE), None}}

\* the emails sent: as stored, in upper case, padded with whitespace, of
\* the other account, of no account
LoginEmails ==
    {EMAIL_1, <<"A", "@", "X">>, <<SP>> \o EMAIL_1 \o <<NL>>,
     <<SP, "A", "@", "x", TAB>>, EMAIL_2, EMAIL_9}

\* the passwords sent: of r1, of r2, of r1 in upper case, of r1 padded
LoginPasswords ==
    {PASSWORD_1, PASSWORD_2, <<"P", "W", "1">>, PASSWORD_1 \o <<SP>>}

\* RecruiterLoginInput (auth/models.py)
RecruiterLoginInput(email, password) == [email |-> email, password |-> password]

LoginInputs == {RecruiterLoginInput(e, p) : e \in LoginEmails, p \in LoginPasswords}

\* get_recruiter_by_email (services.py lines 83-103): the first row whose
\* email equals email.lower(), raw
get_recruiter_by_email(email) ==
    LET found == {i \in 1..Len(recruiters) :
                    RowGet(recruiters[i], "email", None) = Str(Lower(email))}
    IN  IF found = {} THEN None
        ELSE recruiters[CHOOSE i \in found : \A j \in found : i <= j]

\* _parse_recruiter (services.py lines 67-80) of a raw row, the fields the
\* table of this model has
ParseRecruiterRow(data) ==
    [id |-> RowGet(data, "id", None), email |-> RowGet(data, "email", None),
     isActive |-> RowGet(data, "is_active", Bool(TRUE))]

\* _generate_token (services.py lines 36-45)
generate_token(id, email) ==
    [is_jwt |-> TRUE, key |-> JWT_SECRET,
     payload |-> [recruiter_id |-> id, email |-> email, iat |-> now,
                  exp |-> now + JWT_EXPIRATION_HOURS]]

LoginChecksPasswordOnly(raw, password) ==
    IF ~verify_password(password, raw.password_hash)
    THEN RaiseExc("ValueError", <<"Invalid email or password">>)
    ELSE LET parsed == ParseRecruiterRow(raw)
         IN  Return([recruiter |-> parsed,
                     token |-> generate_token(parsed.id, parsed.email)])

\* login after the lookup (services.py lines 197-209): the account is
\* active, the password verifies, the token is generated
LoginChecks(raw, password) ==
    IF Falsy(RowGet(raw, "is_active", Bool(TRUE)))
    THEN RaiseExc("ValueError", <<"Account is deactivated">>)
    ELSE IF ~verify_password(password, raw.password_hash)
    THEN RaiseExc("ValueError", <<"Invalid email or password">>)
    ELSE LET parsed == ParseRecruiterRow(raw)
         IN  Return([recruiter |-> parsed,
                     token |-> generate_token(parsed.id, parsed.email)])

LoginInit ==
    /\ login_input \in LoginInputs
    /\ login_pc = "lookup"
    /\ recruiter_raw = None
    /\ login_outcome = NoResult
    /\ login_response = NoResult
    /\ recruiters \in LoginRecruiterTables
    /\ now \in Times
    /\ auth_header = <<>> /\ recruiter = None /\ recruiter_id = None
    /\ auth_pc = "idle" /\ view_calls = 0 /\ auth_response = NoResult
    /\ NormIdle
    /\ OpsIdle
    /\ ViewsIdle
    /\ ConcurrentIdle
    /\ ManageIdle

\* login up to the lookup (services.py lines 190-195)
login_lookup ==
    /\ login_pc = "lookup"
    /\ LET email == Strip(Lower(login_input.email))
           found == get_recruiter_by_email(email)
       IN  /\ recruiter_raw' = found
           /\ IF found = None
              THEN /\ login_outcome' =
                        RaiseExc("ValueError", <<"Invalid email or password">>)
                   /\ login_pc' = "respond"
              ELSE /\ login_pc' = "check"
                   /\ UNCHANGED login_outcome
    /\ UNCHANGED <<login_input, login_response, recruiters, now, outside_login>>

\* login from the check of is_active to its return (services.py lines
\* 197-209)
login_check ==
    /\ login_pc = "check"
    /\ login_outcome' = LoginChecks(recruiter_raw, login_input.password)
    /\ login_pc' = "respond"
    /\ UNCHANGED <<login_input, recruiter_raw, login_response, recruiters, now,
                   outside_login>>

\* LoginView.post after services.login (auth/views.py lines 107-129)
login_view_post ==
    /\ login_pc = "respond"
    /\ login_response' =
          IF login_outcome.kind = "return"
          THEN Success("Login successful", login_outcome.value)
          ELSE IF login_outcome.exc = "ValueError"
          THEN Response(HTTP_401_UNAUTHORIZED, "LOGIN_ERROR", login_outcome.msg,
                        None)
          ELSE ServerError("Failed to authenticate")
    /\ login_pc' = "done"
    /\ UNCHANGED <<login_input, recruiter_raw, login_outcome, recruiters, now,
                   outside_login>>

LoginNext ==
    \/ login_lookup
    \/ login_check
    \/ login_view_post

SpecLogin == LoginInit /\ [][LoginNext]_vars

\* ------------------------------------------------------------------------
\* Properties of the normalizers (checked under SpecNorm)
\* ------------------------------------------------------------------------

Normalized == result # NoResult
Returned == Normalized /\ result.kind = "return"
IsResume == parser = "_parse_gemini_response"

\* what json.loads made of the reply, as the claims speak of it
Parsed == JsonLoads(cleaned_text)
ParsedJson == Normalized /\ Parsed.ok
ParsedObject == ParsedJson /\ Parsed.val.t = "dict"
Missing(key) == ParsedObject /\ ~HasKey(Parsed.val.v, key)
Given(key) == DictGet(Parsed.val.v, key, None)

ScoreKey == IF IsResume THEN K_priorityScore ELSE K_jobRelevancyScore
ScoreField == IF IsResume THEN result.value.priority_score
                          ELSE result.value.job_relevancy_score

\* C1: a numeric priorityScore / jobRelevancyScore is clamped into
\* [0,100]: above 100 it becomes 100, below 0 it becomes 0, and a value in
\* [0,100] is returned unchanged.
C1_ScoreClamped ==
    (Returned /\ ParsedObject /\ HasKey(Parsed.val.v, ScoreKey)) =>
        LET x == Given(ScoreKey)
            y == ScoreField
        IN  /\ x.t \in {"num", "float"} => (y.t = "num" /\ y.v >= 0 /\ y.v <= 100)
            /\ x.t = "num" =>
                  /\ (x.v > 100 => y.v = 100)
                  /\ (x.v < 0 => y.v = 0)
                  /\ (x.v >= 0 /\ x.v <= 100 => y.v = x.v)
            /\ x = Float("inf") => y.v = 100
            /\ x = Float("-inf") => y.v = 0

C1_Witness ==
    /\ Returned /\ ParsedObject
    /\ Given(ScoreKey) = Num(150)
    /\ ScoreField = Num(100)

\* C3: once the reply has parsed as JSON, normalization returns a record
\* and raises no error, whatever the parsed value is.
C3_ProjectionNeverFails == ParsedJson => result.kind = "return"

ResumeFieldsNotNull ==
    \A f \in {"name", "email", "priority_score", "summary", "key_skills",
              "experience", "education", "highlights", "concerns"} :
        result.value[f] # None

JobFieldsNotNull ==
    \A f \in {"job_relevancy_score", "job_match_summary", "skill_matches",
              "skill_gaps", "strengths", "recommendations"} :
        result.value[f] # None

\* C4: every returned record is fully populated: no field other than
\* phone is null, also when the reply holds a key with the value null.
C4_FullyPopulated ==
    (Returned /\ ParsedObject) =>
        IF IsResume THEN ResumeFieldsNotNull ELSE JobFieldsNotNull

SentinelSet == {S_Unknown, S_UnknownEmail, S_NoSummary, S_NotSpecified}

ResumeSentinels ==
    /\ Missing(K_name) => result.value.name = Str(S_Unknown)
    /\ Missing(K_email) => result.value.email = Str(S_UnknownEmail)
    /\ Missing(K_summary) => result.value.summary = Str(S_NoSummary)
    /\ Missing(K_experience) => result.value.experience = Str(S_NotSpecified)
    /\ Missing(K_education) => result.value.education = Str(S_NotSpecified)

\* C5 as stated: a missing string key yields its sentinel, and the
\* job-match summary falls back to a sentinel of the set of four.
C5_SentinelsOfTheSet ==
    (Returned /\ ParsedObject) =>
        IF IsResume THEN ResumeSentinels
        ELSE Missing(K_jobMatchSummary) =>
                /\ result.value.job_match_summary.t = "str"
                /\ result.value.job_match_summary.v \in SentinelSet

\* C5 (amended): a missing string key yields its sentinel: name ->
\* "Unknown", email -> "unknown@example.com", summary -> "No summary
\* available", experience and education -> "Not specified"; the job-match
\* summary falls back to "No match summary available", which is not one of
\* those four.
C5_Sentinels ==
    (Returned /\ ParsedObject) =>
        IF IsResume THEN ResumeSentinels
        ELSE Missing(K_jobMatchSummary) =>
                /\ result.value.job_match_summary = Str(S_NoMatchSummary)
                /\ S_NoMatchSummary \notin SentinelSet

C5_Witness ==
    \/ /\ Returned /\ IsResume /\ Missing(K_name) /\ Missing(K_education)
       /\ HasKey(Parsed.val.v, K_email)
       /\ result.value.name = Str(S_Unknown)
    \/ /\ Returned /\ ~IsResume /\ Missing(K_jobMatchSummary)
       /\ HasKey(Parsed.val.v, K_skillGaps)
       /\ result.value.job_match_summary = Str(S_NoMatchSummary)

\* the prefix of xs cut at n, stated element by element
IsPrefixCutAt(ys, xs, n) ==
    /\ Len(ys) = (IF Len(xs) <= n THEN Len(xs) ELSE n)
    /\ \A i \in 1..Len(ys) : ys[i] = xs[i]

ListRule(key, field, n) ==
    LET y == result.value[field]
    IN  /\ Missing(key) => y = List(<<>>)
        /\ (HasKey(Parsed.val.v, key) /\ Given(key) = None) => y = List(<<>>)
        /\ (HasKey(Parsed.val.v, key) /\ Given(key).t = "list") =>
              /\ y.t = "list"
              /\ IsPrefixCutAt(y.v, Given(key).v, n)
              /\ (Len(Given(key).v) <= n => y = Given(key))

\* C6: every sequence field is the order-preserving prefix of the model's
\* list cut at its maximum length (keySkills 10, highlights 5, concerns 3,
\* skillMatches 10, skillGaps 10, strengths 5, recommendations 3); a
\* shorter list is unchanged; a null, absent or empty list gives [].
C6_ListsTruncated ==
    (Returned /\ ParsedObject) =>
        IF IsResume
        THEN /\ ListRule(K_keySkills, "key_skills", 10)
             /\ ListRule(K_highlights, "highlights", 5)
             /\ ListRule(K_concerns, "concerns", 3)
        ELSE /\ ListRule(K_skillMatches, "skill_matches", 10)
             /\ ListRule(K_skillGaps, "skill_gaps", 10)
             /\ ListRule(K_strengths, "strengths", 5)
             /\ ListRule(K_recommendations, "recommendations", 3)

C6_Witness ==
    /\ Returned /\ IsResume /\ ParsedObject
    /\ Given(K_keySkills).t = "list"
    /\ Len(Given(K_keySkills).v) = 11
    /\ Len(result.value.key_skills.v) = 10
    /\ result.value.key_skills.v[10] = Item(10)

NormalizeAlone(body) ==
    IF IsResume THEN ParseGeminiResponse(body) ELSE ParseJobMatchResponse(body)

\* C7: a reply that wraps J in a json-labeled or a plain fence (with
\* surrounding whitespace) normalizes to the record, or the parse failure,
\* of J alone: exactly the fence markers (7 or 3 characters in front, 3
\* behind) and the surrounding whitespace are removed.
C7_FenceTransparent ==
    (Normalized /\ reply_wrap \in FenceWraps) =>
        /\ cleaned_text = Strip(reply_body)
        /\ result = NormalizeAlone(reply_body)

C7_Witness ==
    /\ Returned /\ IsResume
    /\ reply_wrap = "json_fence_padded"
    /\ reply_body = Dumps(FullResume)
    /\ result.value.name = Str(<<"A", "d", "a">>)
    /\ Len(text) = Len(reply_body) + 14

\* ------------------------------------------------------------------------
\* Properties of the analysis operations (checked under Spec)
\* ------------------------------------------------------------------------

CallsTo(api) == {i \in 1..Len(calls) : calls[i].api = api}
Utf8Opens == {i \in CallsTo("open") : calls[i].arg = "r utf-8"}
BinaryOpens == {i \in CallsTo("open") : calls[i].arg = "rb"}
Uploads == CallsTo("genai.upload_file")
Generations == CallsTo("generate_content")

Finished == pc = "done"
Failed == outcome # NoResult /\ outcome.kind = "raise"

\* the reply received is not valid JSON once its fences are stripped
Unparseable ==
    response_text # None /\ ~JsonLoads(CleanText(response_text.v)).ok

\* C2: a reply that is not valid JSON after fence stripping, the empty
\* reply included, ends each of the four operations in a failure; no
\* record is returned, neither a defaulted nor a partly filled one.
C2_NonJsonReplyFails ==
    (Unparseable /\ outcome # NoResult) => outcome.kind = "raise"

C2_Witness ==
    /\ Finished /\ Failed
    /\ op = "analyze_resume_for_job"
    /\ response_text = Str(<<>>)
    /\ Cardinality(Generations) = 1
    /\ outcome.msg[1] = "Failed to parse AI response"

TxtPath == op \in FileOps /\ Lower(SplitExt(file_path)) = EXT_TXT
PdfPath == op \in FileOps /\ EndsWith(file_path, EXT_PDF)

\* C8: for a path whose extension is .txt in any letter case the file is
\* decoded as UTF-8, the inline-text generation is called exactly once and
\* the file-upload call never; for a path ending in .pdf the upload is
\* made with MIME application/pdf before the generation call and the file
\* is never decoded as UTF-8.
C8_FileDispatch ==
    /\ TxtPath =>
          /\ Uploads = {} /\ BinaryOpens = {}
          /\ Cardinality(Generations) <= 1
          /\ \A g \in Generations :
                /\ ~calls[g].arg.attachment
                /\ \E o \in Utf8Opens : o < g
          /\ (Finished /\ resume_text # None) => Cardinality(Generations) = 1
    /\ PdfPath =>
          /\ Utf8Opens = {}
          /\ \A u \in Uploads : calls[u].arg = "application/pdf"
          /\ \A g \in Generations :
                /\ calls[g].arg.attachment
                /\ \E u \in Uploads : u < g
          /\ (Finished /\ mime_type # "") => Cardinality(Uploads) = 1

C8_Witness ==
    /\ Finished /\ outcome.kind = "return"
    /\ op = "analyze_resume_from_file"
    /\ file_path = <<"c", "v", ".", "T", "X", "T">>
    /\ Cardinality(Utf8Opens) = 1
    /\ Cardinality(Generations) = 1
    /\ Uploads = {}

NonTxtPath == op \in FileOps /\ Lower(SplitExt(file_path)) # EXT_TXT

ClaimedMime(e) ==
    CASE e = <<".", "p", "d", "f">> -> "application/pdf"
      [] e = <<".", "d", "o", "c">> -> "application/msword"
      [] e = <<".", "d", "o", "c", "x">> ->
            "application/vnd.openxmlformats-officedocument.wordprocessingml.document"
      [] OTHER -> "application/pdf"

\* C9: every extension other than .txt is handled in file-attachment mode
\* and none is rejected: once the credentials are set the file is read as
\* bytes and uploaded with the MIME type of the table (.pdf, .doc, .docx),
\* application/pdf for any other or an empty extension.
C9_AttachmentMode ==
    NonTxtPath =>
        /\ Utf8Opens = {}
        /\ \A u \in Uploads :
              calls[u].arg = ClaimedMime(Lower(SplitExt(file_path)))
        /\ \A g \in Generations : calls[g].arg.attachment /\ Uploads # {}
        /\ (Finished /\ api_key # "") => BinaryOpens # {}
        /\ (Finished /\ mime_type # "") => Uploads # {}

C9_Witness ==
    /\ Finished /\ outcome.kind = "return"
    /\ op = "analyze_resume_file_for_job"
    /\ file_path = <<"c", "v", ".", "r", "t", "f">>
    /\ \E u \in Uploads : calls[u].arg = "application/pdf"

ClaimedPrefix(o) ==
    CASE o = "analyze_resume" -> "Failed to analyze resume"
      [] o = "analyze_resume_from_file" -> "Failed to analyze resume file"
      [] o = "analyze_resume_for_job" -> "Failed to analyze resume for job"
      [] o = "analyze_resume_file_for_job" -> "Failed to analyze resume file for job"

\* C10 as stated: every failure of an operation carries a message that
\* starts with the prefix naming that operation.
C10_PrefixNamesOperation ==
    (Finished /\ Failed) => outcome.msg[1] = ClaimedPrefix(op)

\* the .txt path: the file operation called the inline operation
Delegated == Utf8Opens # {}

\* C10 (amended): every failure reaches the caller as one exception.  Its
\* message starts with the prefix naming the operation when the
\* credentials are missing, a file read, upload or generation fails, or
\* the projection raises.  For an unparseable reply it starts with "Failed
\* to parse AI response" instead, except on the .txt path of the two file
\* operations, where that message is wrapped once more and follows the file
\* operation's prefix.
C10_FailurePrefix ==
    (Finished /\ Failed) =>
        /\ outcome.exc = "Exception"
        /\ IF Unparseable /\ ~Delegated
           THEN outcome.msg[1] = "Failed to parse AI response"
           ELSE outcome.msg[1] = ClaimedPrefix(op)
        /\ (Unparseable /\ Delegated) =>
              outcome.msg[2] = "Failed to parse AI response"

C10_Witness ==
    /\ Finished /\ Failed /\ Unparseable /\ ~Delegated
    /\ op = "analyze_resume_from_file"
    /\ outcome.msg[1] = "Failed to parse AI response"

\* the JSONDecodeError message of the reply received, as str(e) renders it
ParseMessage ==
    LET r == JsonLoads(CleanText(response_text.v))
    IN  <<r.err, ToString(r.pos)>>

\* the message names a parse failure: "Failed to parse AI response" is one
\* of its segments
NamesParseFailure(msg) == \E i \in 1..Len(msg) : msg[i] = "Failed to parse AI response"

\* what follows the segment "Failed to parse AI response" in the message
AfterParsePrefix(msg) ==
    LET i == CHOOSE j \in 1..Len(msg) : msg[j] = "Failed to parse AI response"
    IN  SubSeq(msg, i + 1, Len(msg))

\* C11: in all four operations and on every dispatch path, the .txt path
\* included, a reply that is not valid JSON ends in a failure whose message
\* tells it apart from a configuration failure and from a failure of an
\* upstream call (file read, upload, generation): it alone holds the
\* segment "Failed to parse AI response", and the JSON decoder's own
\* message follows that segment.
C11_ParseFailureDistinct ==
    Finished =>
        /\ Unparseable => Failed
        /\ Failed => (NamesParseFailure(outcome.msg) <=> Unparseable)
        /\ (Failed /\ Unparseable) => AfterParsePrefix(outcome.msg) = ParseMessage

C11_Witness ==
    /\ Finished /\ Failed /\ Unparseable /\ Delegated
    /\ op = "analyze_resume_file_for_job"
    /\ outcome.msg = <<"Failed to analyze resume file for job",
                       "Failed to parse AI response",
                       "Expecting value", "0">>

\* C12: with the credentials absent, each of the four operations fails
\* before any file is read or uploaded and before any generation request:
\* the invocation makes no call to the file system or the external
\* service, and ends in one failure naming the missing key.
C12_NoCallWithoutCredentials ==
    api_key = "" =>
        /\ calls = <<>>
        /\ pc \in {"configure", "done"}
        /\ resume_text \in (IF op \in TextOps THEN ResumeTexts ELSE {None})
        /\ response_text = None
        /\ Finished =>
              /\ Failed
              /\ outcome.msg = <<ClaimedPrefix(op), "GEMINI_API_KEY is not configured">>

C12_Witness ==
    /\ Finished /\ Failed
    /\ api_key = ""
    /\ op = "analyze_resume_from_file"
    /\ file_path = <<"c", "v", ".", "t", "x", "t">>
    /\ calls = <<>>
    /\ outcome.msg[2] = "GEMINI_API_KEY is not configured"

LastCall == calls[Len(calls)]

\* C13: one invocation sends at most one generation request and at most
\* one file upload, whatever the outcome; a failed upload, a failed
\* generation or an empty reply ends the invocation with one failure, and
\* an invocation that has failed makes no further call.
C13_NoRetry ==
    /\ Cardinality(Generations) <= 1
    /\ Cardinality(Uploads) <= 1
    /\ Failed => pc \in {"returning", "done"}
    /\ (Uploads # {} /\ Generations = {} /\ pc # "generate") =>
          (Finished /\ Failed /\ LastCall.api = "genai.upload_file")
    /\ (Generations # {} /\ response_text = None) =>
          (Failed /\ LastCall.api = "generate_content")
    /\ (response_text = Str(<<>>) /\ pc # "parse") =>
          (Failed /\ LastCall.api = "generate_content")

C13_Witness ==
    /\ Finished /\ Failed
    /\ op = "analyze_resume_from_file"
    /\ Cardinality(Uploads) = 1
    /\ Generations = {}
    /\ outcome.msg = <<"Failed to analyze resume file", "upload failed">>

\* ------------------------------------------------------------------------
\* Properties of the upload views (checked under SpecViews)
\* ------------------------------------------------------------------------

Responded == view_pc = "done"

\* validation passed, every analysis returned a record and the file was
\* stored
AllStepsSucceeded ==
    /\ general_analysis # NoResult
    /\ view = "JobApplicationView" => job_analysis # NoResult
    /\ storage_url # None

\* the one persisted applicant
Persisted == applicants[1]

AnalysisFieldsPersisted ==
    LET a == general_analysis.value
    IN  /\ RowGet(Persisted, "priority_score", None) = a.priority_score
        /\ RowGet(Persisted, "summary", None) = a.summary
        /\ RowGet(Persisted, "key_skills", None) = a.key_skills
        /\ RowGet(Persisted, "experience", None) = a.experience
        /\ RowGet(Persisted, "education", None) = a.education
        /\ RowGet(Persisted, "highlights", None) = a.highlights
        /\ RowGet(Persisted, "concerns", None) = a.concerns

\* C14: a public job application that passes validation and whose general
\* analysis, job-match analysis and storage upload all succeed ends with
\* status 201 and exactly one persisted applicant carrying the submitter's
\* name, email and phone, the stored file reference, the ResumeAnalysis
\* fields, the job-match score, summary, skill matches and gaps, and the
\* job posting reference.
C14_JobApplicationPersisted ==
    (Responded /\ view = "JobApplicationView" /\ AllStepsSucceeded) =>
        /\ response.status = 201
        /\ Len(applicants) = 1
        /\ RowGet(Persisted, "name", None) = Str(Field(request.name))
        /\ RowGet(Persisted, "email", None) = Str(Field(request.email))
        /\ RowGet(Persisted, "phone", None) = Str(Field(request.phone))
        /\ RowGet(Persisted, "resume_file_path", None) = storage_url
        /\ AnalysisFieldsPersisted
        /\ LET m == job_analysis.value
           IN  /\ RowGet(Persisted, "job_relevancy_score", None) = m.job_relevancy_score
               /\ RowGet(Persisted, "job_match_summary", None) = m.job_match_summary
               /\ RowGet(Persisted, "skill_matches", None) = m.skill_matches
               /\ RowGet(Persisted, "skill_gaps", None) = m.skill_gaps
        /\ RowGet(Persisted, "job_posting_id", None) = Str(request.job_id)

\* C15: a direct resume upload that passes validation and whose analysis
\* and storage upload both succeed ends with status 201 and exactly one
\* persisted applicant whose name, email, phone, score, summary and list
\* fields equal, field for field, the normalized ResumeAnalysis.
C15_UploadPersisted ==
    (Responded /\ view = "ApplicantUploadView" /\ AllStepsSucceeded) =>
        /\ response.status = 201
        /\ Len(applicants) = 1
        /\ RowGet(Persisted, "name", None) = general_analysis.value.name
        /\ RowGet(Persisted, "email", None) = general_analysis.value.email
        /\ RowGet(Persisted, "phone", None) = general_analysis.value.phone
        /\ AnalysisFieldsPersisted

\* ------------------------------------------------------------------------
\* Properties of concurrent analyses (checked under SpecConcurrent)
\* ------------------------------------------------------------------------

\* what request p returns when it runs alone with its own input and its
\* own reply
Alone(p) ==
    LET fn == requests[p].op
    IN  IF GEMINI_API_KEY = ""
        THEN RaiseExc("Exception",
                 <<ClaimedPrefix(fn), "GEMINI_API_KEY is not configured">>)
        ELSE IF response_texts[p] = None
        THEN RaiseExc("Exception", <<ClaimedPrefix(fn), "generation failed">>)
        ELSE LET body == JsonLoads(CleanText(response_texts[p].v))
             IN  IF ~body.ok
                 THEN RaiseExc("Exception",
                          <<"Failed to parse AI response", body.err, ToString(body.pos)>>)
                 ELSE IF fn = "analyze_resume" THEN ProjectResume(body.val)
                 ELSE ProjectJobMatch(body.val)

OwnOutcome ==
    \A p \in Requests : request_pc[p] = "done" => outcomes[p] = Alone(p)

\* C16 as stated: each of two concurrent analyses returns what it would
\* return alone, and no state written by one is read by the other.
C16_NoSharedState ==
    /\ OwnOutcome
    /\ \A p \in Requests :
          config_read[p] # NoResult => config_read[p].writer = p

\* C16 (amended): for every interleaving of two analyses, each returns the
\* record or failure it would return alone on its own input and its own
\* reply, and no reply is reused.  The configuration genai.configure keeps
\* for the process is shared: the generation call of one analysis may read
\* the configuration the other wrote, which always holds the same key,
\* settings.GEMINI_API_KEY.
C16_Independent ==
    /\ OwnOutcome
    /\ \A p \in Requests :
          config_read[p] # NoResult =>
              /\ config_read[p].kind = "configured"
              /\ config_read[p].api_key = GEMINI_API_KEY

C16_Witness ==
    /\ \A p \in Requests : request_pc[p] = "done"
    /\ config_read[1] # NoResult
    /\ config_read[1].writer = 2
    /\ response_texts[1] = Str(Dumps(FullResume))
    /\ response_texts[2] = Str(<<>>)
    /\ requests[1].op = "analyze_resume"
    /\ requests[2].op = "analyze_resume"
    /\ outcomes[1].kind = "return"
    /\ outcomes[1].value.name = Str(<<"A", "d", "a">>)
    /\ outcomes[2].kind = "raise"

\* ------------------------------------------------------------------------
\* Further properties of the normalizers (checked under SpecNorm)
\* ------------------------------------------------------------------------

\* C17: a reply that parses as a JSON object without the score key yields
\* the score 50 in the normalized record, for priorityScore and for
\* jobRelevancyScore.
C17_MissingScoreIsFifty ==
    (Returned /\ Missing(ScoreKey)) => ScoreField = Num(50)

C17_Witness ==
    \/ /\ Returned /\ IsResume /\ Missing(K_priorityScore)
       /\ HasKey(Parsed.val.v, K_name)
       /\ result.value.priority_score = Num(50)
    \/ /\ Returned /\ ~IsResume /\ Missing(K_jobRelevancyScore)
       /\ HasKey(Parsed.val.v, K_skillGaps)
       /\ result.value.job_relevancy_score = Num(50)

\* ------------------------------------------------------------------------
\* Properties of the prompts (checked under Spec)
\* ------------------------------------------------------------------------

NOT_SPECIFIED == Str(<<"N", "o", "t", " ", "s", "p", "e", "c", "i", "f", "i", "e", "d">>)

\* a job field that is null or the empty string
MissingJobField(x) == x = None \/ x = Str(<<>>)

\* the prompts of the generation requests sent so far
Prompts == {calls[g].arg.prompt : g \in Generations}

\* C18: in both job-match operations a job requirements or job description
\* value that is null or the empty string is rendered as "Not specified",
\* so neither slot of a rendered prompt is empty; a non-empty value is
\* interpolated unchanged.
C18_NotSpecified ==
    op \in JobOps =>
        \A pr \in Prompts :
            /\ pr.template = "JOB_MATCH_PROMPT"
            /\ pr.job_requirements =
                  (IF MissingJobField(job_requirements) THEN NOT_SPECIFIED
                   ELSE job_requirements)
            /\ pr.job_description =
                  (IF MissingJobField(job_description) THEN NOT_SPECIFIED
                   ELSE job_description)
            /\ pr.job_requirements.t = "str" /\ pr.job_requirements.v # <<>>
            /\ pr.job_description.t = "str" /\ pr.job_description.v # <<>>

C18_Witness ==
    /\ Finished
    /\ op = "analyze_resume_file_for_job"
    /\ job_requirements = Str(<<>>)
    /\ job_description = None
    /\ \E pr \in Prompts :
          /\ pr.job_requirements = NOT_SPECIFIED
          /\ pr.job_description = NOT_SPECIFIED

FileForJob == op = "analyze_resume_file_for_job"

\* the resume-content slot and the attachment of every generation request
ContentSlot(placeholder) ==
    /\ (FileForJob /\ NonTxtPath) =>
          /\ Utf8Opens = {}
          /\ \A g \in Generations :
                /\ calls[g].arg.prompt.resume_content = Str(placeholder)
                /\ calls[g].arg.attachment
                /\ \E u \in Uploads : u < g
    /\ (FileForJob /\ TxtPath) =>
          /\ Uploads = {}
          /\ \A g \in Generations :
                /\ calls[g].arg.prompt.resume_content = resume_text
                /\ resume_text \in ResumeTexts
                /\ ~calls[g].arg.attachment

\* C19 as stated: for a non-.txt file the resume-content slot of the
\* job-match prompt holds the literal placeholder "see attached file".
C19_PlaceholderAsQuoted ==
    ContentSlot(<<"s", "e", "e", " ", "a", "t", "t", "a", "c", "h", "e", "d", " ", "f", "i", "l", "e">>)

\* C19 (amended): in analyze_resume_file_for_job, for every non-.txt file
\* the resume-content slot of the job-match prompt holds the fixed literal
\* "[See attached resume file]" and the file is conveyed by the attachment
\* only; for a .txt file the slot holds the decoded text and no attachment
\* is sent.
C19_Placeholder ==
    ContentSlot(<<"[", "S", "e", "e", " ", "a", "t", "t", "a", "c", "h", "e", "d", " ", "r", "e", "s", "u", "m", "e", " ", "f", "i", "l", "e", "]">>)

C19_Witness ==
    /\ Finished /\ FileForJob
    /\ file_path = <<"c", "v", ".", "d", "o", "c", "x">>
    /\ Cardinality(Uploads) = 1
    /\ \E g \in Generations :
          /\ calls[g].arg.attachment
          /\ Len(calls[g].arg.prompt.resume_content.v) = 26

\* ------------------------------------------------------------------------
\* Properties of authentication (checked under SpecAuth)
\* ------------------------------------------------------------------------

\* the request carries 'Bearer <token>', the token is signed with the
\* server's key and not expired, and its recruiter_id names a recruiter
\* that exists and is active
Authentic ==
    \E t \in Tokens :
        /\ auth_header = <<"B", "e", "a", "r", "e", "r", " ">> \o t.text
        /\ t.is_jwt /\ t.key = "server-secret"
        /\ t.payload.exp > now
        /\ \E i \in 1..Len(recruiters) :
              /\ recruiters[i].id = t.payload.recruiter_id
              /\ recruiters[i].is_active = Bool(TRUE)

\* C20: the body of a view protected by require_auth runs only for a
\* request with an Authorization header 'Bearer <token>' whose token
\* verifies and whose recruiter_id names an existing, active recruiter; in
\* every other case (no or another header form, a forged, expired or
\* malformed token, a deactivated or deleted recruiter) the response is 401
\* UNAUTHORIZED and the view body does not run.
C20_RequireAuth ==
    /\ view_calls > 0 => Authentic
    /\ auth_pc = "view" => Authentic
    /\ (auth_pc = "done" /\ ~Authentic) =>
          /\ auth_response.status = 401
          /\ auth_response.error_code = "UNAUTHORIZED"
          /\ view_calls = 0

C20_Witness ==
    /\ auth_pc = "done"
    /\ auth_header = <<"B", "e", "a", "r", "e", "r", " ", "t", "o", "k", "1">>
    /\ recruiters # <<>>
    /\ recruiters[1].is_active = Bool(FALSE)
    /\ auth_response.status = 401
    /\ view_calls = 0

\* ------------------------------------------------------------------------
\* Properties of the steps of the upload views (checked under SpecViews)
\* ------------------------------------------------------------------------

\* no analysis was attempted, nothing was stored and nothing was inserted
NothingRan ==
    /\ general_analysis = NoResult /\ job_analysis = NoResult
    /\ raised = NoResult /\ temp_files = {} /\ storage = {}
    /\ storage_url = None /\ applicants = <<>>

\* postings that are not active when the request arrives; no step makes a
\* posting active
NeverActive == {JOB_DRAFT, JOB_CLOSED, JOB_UNKNOWN}

IsActive(job_id) ==
    \E j \in RowsWithId(job_postings, job_id) : j.status = STATUS_ACTIVE

\* the rows a step adds to the applicants table
Inserted == {applicants'[i] : i \in (Len(applicants) + 1)..Len(applicants')}

ValidFile ==
    /\ request.FILES # None
    /\ request.FILES.size <= MAX_UPLOAD_SIZE
    /\ request.FILES.content_type \in ALLOWED_UPLOAD_TYPES

ValidFields ==
    view = "JobApplicationView" =>
        /\ Field(request.name) # <<>>
        /\ Field(request.email) # <<>>
        /\ Field(request.phone) # <<>>

\* an analysis was called, whether it returned or raised
AnalysisCalled ==
    general_analysis # NoResult \/ job_analysis # NoResult \/ raised # NoResult

\* the handler has come to the construction of the input or to the call of
\* create_applicant, or has inserted a row
InsertCalled ==
    \/ view_pc \in {"build_input", "create_applicant"}
    \/ input_data # NoResult
    \/ applicants # <<>>

\* C25: in both handlers the steps run in the order validate request,
\* analyze with AI, upload file to storage, insert applicant row, and a
\* failing step prevents every later step: a request that fails validation
\* (no file, file too large, content type not allowed, missing name, email
\* or phone) triggers no AI call, no storage upload and no insert, and an
\* applicant row is inserted only after every analysis and the storage
\* upload have succeeded.
C25_StepOrder ==
    /\ ~(ValidFile /\ ValidFields) =>
          /\ NothingRan /\ ~InsertCalled
          /\ (Responded /\ view_pc # "lookup_job") =>
                response.status \in {400, 404}
    /\ (AnalysisCalled \/ temp_files # {}) => (ValidFile /\ ValidFields)
    /\ job_analysis # NoResult => general_analysis # NoResult
    /\ (storage # {} \/ storage_url # None) => AllStepsSucceeded
    /\ InsertCalled => AllStepsSucceeded
    /\ (raised # NoResult /\ general_analysis = NoResult) =>
          job_analysis = NoResult /\ storage = {} /\ ~InsertCalled
    /\ (raised # NoResult /\ view = "JobApplicationView"
          /\ job_analysis = NoResult) => storage = {} /\ ~InsertCalled
    /\ (raised # NoResult /\ storage_url = None) => ~InsertCalled
    /\ raised # NoResult => applicants = <<>>

\* the job-match analysis failed after the general analysis had returned:
\* nothing was stored and the insert was not called
C25_Witness ==
    /\ Responded /\ view = "JobApplicationView"
    /\ general_analysis # NoResult /\ job_analysis = NoResult
    /\ raised # NoResult /\ storage = {} /\ applicants = <<>>
    /\ response.status = 500

\* the stored files an applicant row refers to
ReferencedFiles ==
    {f \in storage :
        \E i \in 1..Len(applicants) :
            RowGet(applicants[i], "resume_file_path", None) = PublicUrl(f)}

\* C26: after the upload handler or the public application handler
\* returns, a resume file is present in storage only if an applicant row
\* referencing its URL was inserted: a request that ends in an error
\* response leaves no stored file behind.
C26_NoOrphanedFile ==
    Responded =>
        /\ storage \subseteq ReferencedFiles
        /\ response.status # 201 => storage = {}

\* C27: the temporary file created for AI processing is removed on every
\* exit path once it has been created: after success, after an analysis,
\* storage or insert failure, and after a failure while the uploaded
\* chunks are being written into it.
C27_TempFileRemoved == Responded => temp_files = {}

\* ------------------------------------------------------------------------
\* Properties of the recruiters' endpoints (checked under SpecManage)
\* ------------------------------------------------------------------------

Done(p) == api_pc[p] = "done"

\* the recruiter who owns a posting, or None; the owner of a posting never
\* changes
OwnerOfJob(job_id) ==
    LET found == RowsWithId(JobPostings, job_id)
    IN  IF found = {} THEN None ELSE (CHOOSE j \in found : TRUE).recruiter_id

\* the recruiter who owns the posting an applicant is attached to
OwnerOfApplicant(applicant_id) ==
    LET found == {i \in 1..Len(Applicants) : Applicants[i].id = applicant_id}
    IN  IF found = {} THEN None
        ELSE OwnerOfJob(Applicants[CHOOSE i \in found : TRUE].job_posting_id.v)

\* the applicants a finished request returned, changed, deleted or got a
\* download link for
Touched(p) ==
    LET e == api_requests[p].endpoint
        r == api_responses[p]
    IN  IF r.status \notin {200, 302} THEN {}
        ELSE IF e \in {"ApplicantListView.get", "JobApplicantsView.get"}
        THEN {r.data.applicants[i].id : i \in 1..Len(r.data.applicants)}
        ELSE IF e \in {"ApplicantDetailView.get", "ApplicantDetailView.patch"}
        THEN IF r.data.applicant = None THEN {} ELSE {r.data.applicant.id}
        ELSE IF e \in {"ApplicantDetailView.delete",
                       "ApplicantResumeDownloadView.get"}
        THEN {api_requests[p].applicant_id}
        ELSE {}

\* C21: an authenticated recruiter can read, update or delete an applicant
\* that is attached to a job posting only when that job posting belongs to
\* that recruiter: across the applicant list, detail, update, delete,
\* resume-download and job-applicants endpoints, recruiter A never obtains
\* or changes an applicant of a job owned by recruiter B.
C21_OwnApplicantsOnly ==
    \A p \in ApiRequests :
        Done(p) => \A a \in Touched(p) : OwnerOfApplicant(a) = RecruiterOf(p)

IsJobWrite(p) ==
    api_requests[p].endpoint \in {"JobDetailView.patch", "JobDetailView.delete"}

\* the handler of request p takes a step
StepOf(p) == api_pc'[p] # api_pc[p]

\* the rows of the applicants table that a step removes or changes
ApplicantsLost ==
    {applicants[i] : i \in 1..Len(applicants)}
        \ {applicants'[i] : i \in 1..Len(applicants')}

\* C22: update_job_posting and delete_job_posting verify ownership first:
\* when the job does not exist or its recruiter differs from the caller,
\* the operation raises ValueError and the stored job posting and its
\* applicants are unchanged; a job posting is modified or deleted only by
\* the recruiter who owns it.
C22_OwnerOnly ==
    /\ [](\A p \in ApiRequests :
            (IsJobWrite(p) /\ api_pc[p] # "start"
                /\ (existing[p] = None \/ existing[p].recruiterId # RecruiterOf(p))) =>
                /\ Done(p)
                /\ api_responses[p].status = 400
                /\ api_responses[p].error_code \in {"UPDATE_ERROR", "DELETE_ERROR"})
    /\ [][\A p \in ApiRequests :
            (IsJobWrite(p) /\ StepOf(p)) =>
                /\ \A j \in job_postings \ job_postings' :
                       /\ j.id = api_requests[p].job_id
                       /\ j.recruiter_id = RecruiterOf(p)
                       /\ existing[p] # None
                /\ \A a \in ApplicantsLost :
                       OwnerOfJob(a.job_posting_id.v) = RecruiterOf(p)]_vars

\* recruiter r1 asked to delete the posting of r2: the answer is the
\* ValueError, and the posting and its applicant are still there
C22_Witness ==
    /\ api_requests[1].endpoint = "JobDetailView.delete"
    /\ api_requests[1].job_id = JOB_DRAFT
    /\ Done(1)
    /\ api_responses[1].status = 400
    /\ api_responses[1].message = <<"Not authorized to", "delete", "this job posting">>
    /\ api_requests[2].endpoint = "ApplicantListView.get"
    /\ RowsWithId(job_postings, JOB_DRAFT) = RowsWithId(JobPostings, JOB_DRAFT)
    /\ applicants = Applicants

\* C28: deleting an applicant through ApplicantDetailView.delete removes
\* both the applicant row and the applicant's resume file: after a
\* successful delete neither the row nor the stored resume file exists;
\* when the applicant does not exist the answer is 404 and nothing is
\* deleted.
C28_DeleteRemovesRowAndFile ==
    \A p \in ApiRequests :
        (api_requests[p].endpoint = "ApplicantDetailView.delete" /\ Done(p)) =>
            /\ api_responses[p].status = 200 =>
                  /\ ApplicantsWithId(api_requests[p].applicant_id) = {}
                  /\ LastSegment(existing[p].resumeFilePath.v) \notin storage
            /\ existing[p] = None =>
                  /\ api_responses[p].status = 404
                  /\ storage = {FILE_1, FILE_2}

\* ------------------------------------------------------------------------
\* Properties of login (checked under SpecLogin)
\* ------------------------------------------------------------------------

\* the rows of the recruiters table whose email is the email sent,
\* lowercased and trimmed
AccountsOfEmail ==
    {i \in 1..Len(recruiters) :
        recruiters[i].email = Str(Strip(Lower(login_input.email)))}

Account == recruiters[CHOOSE i \in AccountsOfEmail : \A j \in AccountsOfEmail : i <= j]

PasswordMatches == Account.password_hash.digest = login_input.password

\* the account exists, is active, and the password sent is its password
Entitled ==
    /\ AccountsOfEmail # {}
    /\ Account.is_active = Bool(TRUE)
    /\ PasswordMatches

InvalidCredentials == RaiseExc("ValueError", <<"Invalid email or password">>)

====
